---------------------------- MODULE Spec2Model ----------------------------
(***************************************************************************)
(* Model of the Sentinel detection pipeline (backend/app):                 *)
(*   zircuit_listener.py  ZircuitListener: connect / poll_for_logs /       *)
(*                        process_event / evaluate_wallet_signals          *)
(*   fetchai_agent.py     feature extraction, pattern matching,            *)
(*                        behavioural analysis, combination, fallback      *)
(*   rules.py             the fallback rule engine                         *)
(*                                                                         *)
(* Units.  Ratios are hundredths (0.6 is 60), confidences and risk scores  *)
(* are hundredths, gas prices are gwei (100_000_000_000 wei is 100), token *)
(* values are units of 10^16 wei (10**18 wei is 100), time is seconds.     *)
(* The value and balance domains are chosen so that value / balance is an  *)
(* exact number of hundredths.                                             *)
(*                                                                         *)
(* The ledger client, the alert store and the evidence uploader are        *)
(* external collaborators: a call to one of them returns a value or raises,*)
(* chosen nondeterministically.                                            *)
(***************************************************************************)
EXTENDS Integers, Sequences, FiniteSets, TLC

VARIABLES
    \* ---- ZircuitListener fields and the monitoring task ----
    running,        \* self.running
    pc,             \* position of the start_monitoring / poll_for_logs task
    last_block,     \* poll_for_logs local
    current_block,  \* poll_for_logs local
    logs,           \* the batch returned by get_logs
    idx,            \* number of logs of the batch the for loop has passed
    wallet_events,  \* self.wallet_events: wallet -> deque(maxlen=100)
    \* ---- environment ----
    head,           \* the ledger's block number
    txCounter,      \* transactions the ledger has produced (gives tx hashes)
    clock,          \* wall clock, seconds
    alerts,         \* rows of the alerts table (SQLiteStore)
    uploads,        \* case objects handed to WalrusUploader
    \* ---- history (observation only) ----
    appended,       \* wallet -> every signal ever appended, in order
    lastEval,       \* the last evaluate_wallet_signals run
    hist,           \* polling history: ranges, processed logs, flags
    \* ---- direct calls of evaluate_signals ----
    evalSlice,      \* the slice handed to evaluate_signals
    featureVec,     \* the feature vector handed to _pattern_matching
    calls           \* the calls made so far on evalSlice or featureVec

vars == <<running, pc, last_block, current_block, logs, idx, wallet_events,
          head, txCounter, clock, alerts, uploads, appended, lastEval, hist,
          evalSlice, featureVec, calls>>

taskVars  == <<running, pc, last_block, current_block, logs, idx, head, hist>>
storeVars == <<wallet_events, alerts, uploads, appended, lastEval>>
evalVars  == <<evalSlice, featureVec, calls>>

-----------------------------------------------------------------------------
(* Program constants *)

WindowCapacity == 100          \* deque(maxlen=100)
TokenThreshold == 100          \* 10**18 wei, "1 token threshold"
AllowanceFallbackHigh == 80    \* 0.8
AllowanceFallbackLow == 30     \* 0.3
TransferFallbackHigh == 40     \* 0.4
TransferFallbackLow == 10      \* 0.1
GasAnomalyGwei == 100          \* 100_000_000_000
GasVeryHighGwei == 200         \* 200_000_000_000
RecentWindowSeconds == 900     \* timedelta(minutes=15)
FlashWindowSeconds == 60       \* time_window_minutes < 1
RuleApprovalWindowSeconds == 600   \* timedelta(minutes=10)
RuleOutflowWindowSeconds == 300    \* timedelta(minutes=5)

Min(a, b) == IF a < b THEN a ELSE b
Max(a, b) == IF a > b THEN a ELSE b

-----------------------------------------------------------------------------
(* The clock.  An instant is a number of seconds since the epoch.  The     *)
(* program reads the clock with datetime.now() and turns timestamps into   *)
(* datetimes with datetime.fromtimestamp(): both give naive local time,    *)
(* here the seconds since the epoch the host's wall clock shows in its     *)
(* standard time.  The host's zone has daylight saving time: the wall      *)
(* clock is set forward by DstShift at DstStart and back at DstEnd.        *)
(* Subtraction and comparison of naive datetimes work on the wall-clock    *)
(* values; timestamp() turns a wall-clock value back into an instant.      *)

DstStart == 20000    \* the instant the wall clock is set forward
DstEnd == 40000      \* the instant the wall clock is set back
DstShift == 3600     \* by one hour

\* datetime.fromtimestamp(t), and datetime.now() at instant t
datetime_fromtimestamp(t) ==
    IF t >= DstStart /\ t < DstEnd THEN t + DstShift ELSE t

datetime_now(t) == datetime_fromtimestamp(t)

\* local.timestamp() of a naive datetime produced by arithmetic (fold = 0):
\* a wall-clock value the forward jump skipped is read in standard time, a
\* value shown twice around the backward jump as its first occurrence
datetime_timestamp(local) ==
    IF local < DstStart + DstShift THEN local
    ELSE IF local < DstEnd + DstShift THEN local - DstShift
    ELSE local

-----------------------------------------------------------------------------
(* Signals.  One record shape for both kinds; the accessors give what      *)
(* signal.get(key, default) gives for the keys a kind does not carry.      *)

Signal(type, timestamp, wallet, counterparty, tx_hash, ratio, spender_known, gas_price, to_contract) ==
    [type |-> type, timestamp |-> timestamp, wallet |-> wallet,
     counterparty |-> counterparty, tx_hash |-> tx_hash, ratio |-> ratio,
     spender_known |-> spender_known, gas_price |-> gas_price,
     to_contract |-> to_contract]

\* signal.get('allowance_ratio', 0): only approval signals carry the key
AllowanceRatio(s) == IF s.type = "approval" THEN s.ratio ELSE 0
\* signal.get('amount_ratio', 0): only transfer signals carry the key
AmountRatio(s) == IF s.type = "transfer" THEN s.ratio ELSE 0
\* signal.get('spender_known', True): only approval signals carry the key
SpenderKnown(s) == IF s.type = "approval" THEN s.spender_known ELSE TRUE

-----------------------------------------------------------------------------
(* fetchai_agent.py: SentinelSecurityAgent *)

SetMax(S) == CHOOSE m \in S : \A x \in S : x <= m
SetMin(S) == CHOOSE m \in S : \A x \in S : m <= x

\* f[lo] + ... + f[hi], summed by halves
RECURSIVE SumFn(_, _, _)
SumFn(f, lo, hi) ==
    IF lo > hi THEN 0
    ELSE IF lo = hi THEN f[lo]
    ELSE LET mid == (lo + hi) \div 2
         IN SumFn(f, lo, mid) + SumFn(f, mid + 1, hi)

\* mutant: an unknown spender is counted once, however many approvals name it
Mutant_UnknownSpenderCount_Distinct(signals) ==
    Cardinality({signals[i].counterparty :
                    i \in {k \in 1..Len(signals) :
                              /\ signals[k].type = "approval"
                              /\ ~SpenderKnown(signals[k])}})

\* features['unknown_spender_count'] += 1, once per approval signal whose
\* spender is not known
UnknownSpenderCount(signals) ==
    Cardinality({i \in 1..Len(signals) :
                    /\ signals[i].type = "approval"
                    /\ ~SpenderKnown(signals[i])})

\* mutant: the running maximum is taken over the ratio of every signal
Mutant_extract_features_AnyRatio(signals, now) ==
    LET n == Len(signals)
        approvals == {i \in 1..n : signals[i].type = "approval"}
        transfers == {i \in 1..n : signals[i].type = "transfer"}
        current_time == datetime_now(now)
        earliest_time ==
            SetMin({current_time}
                   \cup {datetime_fromtimestamp(signals[i].timestamp) : i \in 1..n})
    IN [approval_count |-> Cardinality(approvals),
        transfer_count |-> Cardinality(transfers),
        max_allowance_ratio |->
            SetMax({0} \cup {signals[i].ratio : i \in 1..n}),
        total_outflow_ratio |->
            SumFn([i \in 1..n |-> IF i \in transfers
                                  THEN AmountRatio(signals[i]) ELSE 0], 1, n),
        unknown_spender_count |-> UnknownSpenderCount(signals),
        time_window_seconds |-> current_time - earliest_time,
        gas_price_anomaly |->
            \E i \in 1..n : signals[i].gas_price > GasAnomalyGwei,
        contract_interactions |->
            Cardinality({i \in 1..n : signals[i].to_contract})]

\* _extract_features: what the single pass over the signals accumulates.
\* time_window_minutes is kept in seconds: minutes < 1 iff seconds < 60;
\* earliest_time is the minimum of current_time and every signal time.
extract_features(signals, now) ==
    LET n == Len(signals)
        approvals == {i \in 1..n : signals[i].type = "approval"}
        transfers == {i \in 1..n : signals[i].type = "transfer"}
        current_time == datetime_now(now)
        earliest_time ==
            SetMin({current_time}
                   \cup {datetime_fromtimestamp(signals[i].timestamp) : i \in 1..n})
    IN [approval_count |-> Cardinality(approvals),
        transfer_count |-> Cardinality(transfers),
        max_allowance_ratio |->
            SetMax({0} \cup {AllowanceRatio(signals[i]) : i \in approvals}),
        total_outflow_ratio |->
            SumFn([i \in 1..n |-> IF i \in transfers
                                  THEN AmountRatio(signals[i]) ELSE 0], 1, n),
        unknown_spender_count |-> UnknownSpenderCount(signals),
        time_window_seconds |-> current_time - earliest_time,
        gas_price_anomaly |->
            \E i \in 1..n : signals[i].gas_price > GasAnomalyGwei,
        contract_interactions |->
            Cardinality({i \in 1..n : signals[i].to_contract})]

\* mutant: the flash-loan window is half a minute
Mutant_FlashLoanRule_HalfMinute(features) ==
    /\ features.approval_count >= 1
    /\ features.transfer_count >= 1
    /\ features.time_window_seconds < 30
    /\ features.max_allowance_ratio > 50

\* mutant: the flash-loan ratio threshold is 0.6
Mutant_FlashLoanRule_Ratio(features) ==
    /\ features.approval_count >= 1
    /\ features.transfer_count >= 1
    /\ features.time_window_seconds < FlashWindowSeconds
    /\ features.max_allowance_ratio > 60

FlashLoanRule(features) ==
    /\ features.approval_count >= 1
    /\ features.transfer_count >= 1
    /\ features.time_window_seconds < FlashWindowSeconds
    /\ features.max_allowance_ratio > 50

\* mutant: the drainer rule does not look at the number of approvals
Mutant_DrainerRule_NoApprovalCount(features) ==
    /\ features.unknown_spender_count >= 2
    /\ features.max_allowance_ratio > 80

DrainerRule(features) ==
    /\ features.approval_count >= 3
    /\ features.unknown_spender_count >= 2
    /\ features.max_allowance_ratio > 80

SandwichRule(features) ==
    /\ features.approval_count >= 1
    /\ features.transfer_count >= 2
    /\ features.gas_price_anomaly

\* mutant: the first matching rule decides (elif instead of if)
Mutant_pattern_matching_FirstMatch(features) ==
    IF FlashLoanRule(features)
    THEN [patterns |-> <<"flash_loan_attack">>, confidence |-> 90,
          severity |-> "high"]
    ELSE IF DrainerRule(features)
    THEN [patterns |-> <<"drainer_pattern">>, confidence |-> 95,
          severity |-> "high"]
    ELSE IF SandwichRule(features)
    THEN [patterns |-> <<"sandwich_attack">>, confidence |-> 80,
          severity |-> "medium"]
    ELSE [patterns |-> <<>>, confidence |-> 0, severity |-> "low"]

pattern_matching(features) ==
    LET fl == FlashLoanRule(features)
        dr == DrainerRule(features)
        sw == SandwichRule(features)
        c1 == IF fl THEN Max(0, 90) ELSE 0
        c2 == IF dr THEN Max(c1, 95) ELSE c1
        c3 == IF sw THEN Max(c2, 80) ELSE c2
        s1 == IF fl THEN "high" ELSE "low"
        s2 == IF dr THEN "high" ELSE s1
        s3 == IF sw /\ s2 # "high" THEN "medium" ELSE s2
    IN [patterns |-> (IF fl THEN <<"flash_loan_attack">> ELSE <<>>)
                     \o (IF dr THEN <<"drainer_pattern">> ELSE <<>>)
                     \o (IF sw THEN <<"sandwich_attack">> ELSE <<>>),
        confidence |-> c3,
        severity |-> s3]

\* max(gas_prices) of a slice, 0 for the empty one (the guard "gas_prices and")
MaxGasPrice(signals) ==
    SetMax({0} \cup {signals[i].gas_price : i \in 1..Len(signals)})

\* mutant: the frequency contribution tests for exactly five signals
Mutant_behavioral_analysis_ExactlyFive(signals) ==
    LET freq == Len(signals) = 5
        gas  == Len(signals) > 0 /\ MaxGasPrice(signals) > GasVeryHighGwei
        ctr  == Cardinality({i \in 1..Len(signals) : signals[i].to_contract}) >= 3
        risk_score == (IF freq THEN 30 ELSE 0) + (IF gas THEN 20 ELSE 0)
                      + (IF ctr THEN 40 ELSE 0)
    IN [risk_score |-> risk_score,
        anomalies |-> (IF freq THEN <<"High transaction frequency">> ELSE <<>>)
                      \o (IF gas THEN <<"Unusually high gas prices">> ELSE <<>>)
                      \o (IF ctr THEN <<"Multiple contract interactions">> ELSE <<>>),
        severity |-> IF risk_score >= 70 THEN "high"
                     ELSE IF risk_score >= 40 THEN "medium" ELSE "low"]

\* mutant: a gas price of exactly 200 gwei counts as unusually high
Mutant_behavioral_analysis_GasAtLeast(signals) ==
    LET freq == Len(signals) >= 5
        gas  == Len(signals) > 0 /\ MaxGasPrice(signals) >= GasVeryHighGwei
        ctr  == Cardinality({i \in 1..Len(signals) : signals[i].to_contract}) >= 3
        risk_score == (IF freq THEN 30 ELSE 0) + (IF gas THEN 20 ELSE 0)
                      + (IF ctr THEN 40 ELSE 0)
    IN [risk_score |-> risk_score,
        anomalies |-> (IF freq THEN <<"High transaction frequency">> ELSE <<>>)
                      \o (IF gas THEN <<"Unusually high gas prices">> ELSE <<>>)
                      \o (IF ctr THEN <<"Multiple contract interactions">> ELSE <<>>),
        severity |-> IF risk_score >= 70 THEN "high"
                     ELSE IF risk_score >= 40 THEN "medium" ELSE "low"]

behavioral_analysis(signals) ==
    LET freq == Len(signals) >= 5
        gas  == Len(signals) > 0 /\ MaxGasPrice(signals) > GasVeryHighGwei
        contract_interactions ==
            Cardinality({i \in 1..Len(signals) : signals[i].to_contract})
        ctr  == contract_interactions >= 3
        risk_score == (IF freq THEN 30 ELSE 0) + (IF gas THEN 20 ELSE 0)
                      + (IF ctr THEN 40 ELSE 0)
    IN [risk_score |-> risk_score,
        anomalies |-> (IF freq THEN <<"High transaction frequency">> ELSE <<>>)
                      \o (IF gas THEN <<"Unusually high gas prices">> ELSE <<>>)
                      \o (IF ctr THEN <<"Multiple contract interactions">> ELSE <<>>),
        severity |-> IF risk_score >= 70 THEN "high"
                     ELSE IF risk_score >= 40 THEN "medium" ELSE "low"]

\* severity_order.get(x, 0)
severity_order(x) == IF x = "high" THEN 2 ELSE IF x = "medium" THEN 1 ELSE 0

\* mutant: the pattern severity wins
Mutant_final_severity_PatternOnly(threat_severity, behavior_severity) ==
    threat_severity

\* max([a, b], key=severity_order): the first element with the largest key
final_severity(threat_severity, behavior_severity) ==
    IF severity_order(behavior_severity) > severity_order(threat_severity)
    THEN behavior_severity ELSE threat_severity

Clause(label, items) == [label |-> label, items |-> items, pct |-> 0]

\* mutant: the ladder is cumulative, a level includes the levels below it
Mutant_generate_recommendations_Cumulative(severity, features, patterns) ==
    LET has(p) == \E i \in 1..Len(patterns) : patterns[i] = p
    IN (IF severity = "high"
          THEN <<"revoke approvals", "rotate signer", "transfer assets",
                 "review history">>
          ELSE <<>>)
       \o (IF severity \in {"high", "medium"}
          THEN <<"limit approvals", "monitor activity", "hardware wallet">>
          ELSE <<>>)
       \o <<"continue practices", "periodic review">>
       \o (IF has("drainer_pattern") THEN <<"avoid unknown dapps">> ELSE <<>>)
       \o (IF has("flash_loan_attack") THEN <<"mev and flash loan caution">> ELSE <<>>)
       \o (IF features.gas_price_anomaly THEN <<"review gas settings">> ELSE <<>>)

generate_recommendations(severity, features, patterns) ==
    LET has(p) == \E i \in 1..Len(patterns) : patterns[i] = p
    IN (IF severity = "high"
          THEN <<"revoke approvals", "rotate signer", "transfer assets",
                 "review history">>
        ELSE IF severity = "medium"
          THEN <<"limit approvals", "monitor activity", "hardware wallet">>
        ELSE <<"continue practices", "periodic review">>)
       \o (IF has("drainer_pattern") THEN <<"avoid unknown dapps">> ELSE <<>>)
       \o (IF has("flash_loan_attack") THEN <<"mev and flash loan caution">> ELSE <<>>)
       \o (IF features.gas_price_anomaly THEN <<"review gas settings">> ELSE <<>>)

\* mutant: the confidence is the pattern confidence alone
Mutant_combine_analyses_PatternConfidence(threat_level, behavior_risk, features) ==
    LET sev == final_severity(threat_level.severity, behavior_risk.severity)
        reasons ==
            (IF Len(threat_level.patterns) > 0
                THEN <<Clause("Detected patterns", threat_level.patterns)>>
                ELSE <<>>)
            \o (IF Len(behavior_risk.anomalies) > 0
                THEN <<Clause("Behavioral anomalies", behavior_risk.anomalies)>>
                ELSE <<>>)
    IN [severity |-> sev,
        reason |-> IF reasons = <<>>
                   THEN <<Clause("Standard security evaluation completed", <<>>)>>
                   ELSE reasons,
        confidence |-> threat_level.confidence,
        recommendations |->
            generate_recommendations(sev, features, threat_level.patterns)]

\* mutant: the default string stands in for a missing pattern clause
Mutant_combine_analyses_DefaultForNoPattern(threat_level, behavior_risk, features) ==
    LET sev == final_severity(threat_level.severity, behavior_risk.severity)
        behavior_confidence == Min(behavior_risk.risk_score, 100)
        reasons ==
            (IF Len(threat_level.patterns) > 0
                THEN <<Clause("Detected patterns", threat_level.patterns)>>
                ELSE <<Clause("Standard security evaluation completed", <<>>)>>)
            \o (IF Len(behavior_risk.anomalies) > 0
                THEN <<Clause("Behavioral anomalies", behavior_risk.anomalies)>>
                ELSE <<>>)
    IN [severity |-> sev,
        reason |-> reasons,
        confidence |-> Max(threat_level.confidence, behavior_confidence),
        recommendations |->
            generate_recommendations(sev, features, threat_level.patterns)]

combine_analyses(threat_level, behavior_risk, features) ==
    LET sev == final_severity(threat_level.severity, behavior_risk.severity)
        behavior_confidence == Min(behavior_risk.risk_score, 100)
        reasons ==
            (IF Len(threat_level.patterns) > 0
                THEN <<Clause("Detected patterns", threat_level.patterns)>>
                ELSE <<>>)
            \o (IF Len(behavior_risk.anomalies) > 0
                THEN <<Clause("Behavioral anomalies", behavior_risk.anomalies)>>
                ELSE <<>>)
    IN [severity |-> sev,
        reason |-> IF reasons = <<>>
                   THEN <<Clause("Standard security evaluation completed", <<>>)>>
                   ELSE reasons,
        confidence |-> Max(threat_level.confidence, behavior_confidence),
        recommendations |->
            generate_recommendations(sev, features, threat_level.patterns)]

\* FetchAIAnalyzer._agent_analysis
agent_analysis(signals, now) ==
    LET features == extract_features(signals, now)
        threat_level == pattern_matching(features)
        behavior_risk == behavioral_analysis(signals)
    IN combine_analyses(threat_level, behavior_risk, features)

-----------------------------------------------------------------------------
(* rules.py: the fallback rule engine *)

severity_scores(x) == IF x = "high" THEN 3 ELSE IF x = "medium" THEN 2 ELSE 1

\* index of the first signal R02 fires on (the loop breaks there), 0 when
\* there is none
R02Index(signals) ==
    LET hits == {i \in 1..Len(signals) :
                    AllowanceRatio(signals[i]) > 20 /\ ~SpenderKnown(signals[i])}
    IN IF hits = {} THEN 0 ELSE SetMin(hits)

\* sum(recent_outflows)
RecentOutflow(signals, now) ==
    SumFn([i \in 1..Len(signals) |->
              IF /\ signals[i].type = "transfer"
                 /\ datetime_now(now)
                      - datetime_fromtimestamp(signals[i].timestamp)
                        <= RuleOutflowWindowSeconds
              THEN AmountRatio(signals[i]) ELSE 0], 1, Len(signals))

rules_evaluate_signals(signals, now) ==
    LET recent_approvals ==
            {i \in 1..Len(signals) :
                /\ signals[i].type = "approval"
                /\ datetime_now(now)
                     - datetime_fromtimestamp(signals[i].timestamp)
                       <= RuleApprovalWindowSeconds}
        r01 == Cardinality(recent_approvals) >= 3
        k   == R02Index(signals)
        r02 == k # 0
        total_outflow_ratio == RecentOutflow(signals, now)
        r03 == total_outflow_ratio > 40
        s1 == IF r01 /\ severity_scores("medium") > severity_scores("low")
              THEN "medium" ELSE "low"
        s2 == IF r02 /\ severity_scores("high") > severity_scores(s1)
              THEN "high" ELSE s1
        s3 == IF r03 /\ severity_scores("high") > severity_scores(s2)
              THEN "high" ELSE s2
        reasons ==
            (IF r01 THEN <<Clause("R01: Multiple approvals detected", <<>>)>> ELSE <<>>)
            \o (IF r02 THEN <<[label |-> "R02: High allowance to unknown spender",
                               items |-> <<>>,
                               pct |-> AllowanceRatio(signals[k])]>> ELSE <<>>)
            \o (IF r03 THEN <<[label |-> "R03: High outflow detected",
                               items |-> <<>>,
                               pct |-> total_outflow_ratio]>> ELSE <<>>)
    IN [severity |-> s3,
        reason |-> IF reasons = <<>>
                   THEN <<Clause("Suspicious activity detected", <<>>)>>
                   ELSE reasons]

-----------------------------------------------------------------------------
(* fetchai_agent.py: FetchAIAnalyzer.analyze_signals and evaluate_signals. *)
(* agent_ok is whether _agent_analysis returned (SentinelSecurityAgent()   *)
(* was constructed) or raised, in which case the rule engine answers.      *)

NoConfidence == -1   \* the rule engine's result carries no confidence key

\* mutant: a failed agent analysis answers like the agent's message handler
\* (severity "unknown", lines 91-96) instead of asking the rule engine
Mutant_analyze_signals_UnknownOnError(signals, now, agent_ok) ==
    IF agent_ok
    THEN agent_analysis(signals, now)
    ELSE [severity |-> "unknown",
          reason |-> <<Clause("Analysis failed", <<>>)>>,
          confidence |-> 0, recommendations |-> <<"Manual review required">>]

analyze_signals(signals, now, agent_ok) ==
    IF agent_ok
    THEN agent_analysis(signals, now)
    ELSE LET r == rules_evaluate_signals(signals, now)
         IN [severity |-> r.severity, reason |-> r.reason,
             confidence |-> NoConfidence, recommendations |-> <<>>]

evaluate_signals(signals, now, agent_ok) ==
    LET result == analyze_signals(signals, now, agent_ok)
    IN [severity |-> result.severity, reason |-> result.reason]

-----------------------------------------------------------------------------
(* zircuit_listener.py: the enrichment lookups.  A lookup result of Failed *)
(* is the ledger call raising.                                             *)

Failed == -1

Wallets == {"w1", "w2"}
KNOWN_GOOD_ADDRESSES == {"uniswap_v2_router"}
UnknownAddress == "attacker"

\* mutant: the fallback compares the value with 0 instead of the threshold
Mutant_calculate_allowance_ratio_Threshold(approval_value, balance) ==
    IF balance = Failed
    THEN (IF approval_value > 0 THEN AllowanceFallbackHigh
                                ELSE AllowanceFallbackLow)
    ELSE IF balance = 0
    THEN (IF approval_value > 0 THEN 100 ELSE 0)
    ELSE Min((approval_value * 100) \div balance, 100)

\* mutant: the quotient is not clamped
Mutant_calculate_allowance_ratio_NoClamp(approval_value, balance) ==
    IF balance = Failed
    THEN (IF approval_value > TokenThreshold THEN AllowanceFallbackHigh
                                             ELSE AllowanceFallbackLow)
    ELSE IF balance = 0
    THEN (IF approval_value > 0 THEN 100 ELSE 0)
    ELSE (approval_value * 100) \div balance

\* balance: Failed, or the balanceOf result
calculate_allowance_ratio(approval_value, balance) ==
    IF balance = Failed
    THEN (IF approval_value > TokenThreshold THEN AllowanceFallbackHigh
                                             ELSE AllowanceFallbackLow)
    ELSE IF balance = 0
    THEN (IF approval_value > 0 THEN 100 ELSE 0)
    ELSE Min((approval_value * 100) \div balance, 100)

\* current_balance: Failed, or the balanceOf result (after the transfer)
calculate_transfer_ratio(transfer_value, current_balance) ==
    IF current_balance = Failed
    THEN (IF transfer_value > TokenThreshold THEN TransferFallbackHigh
                                             ELSE TransferFallbackLow)
    ELSE LET previous_balance == current_balance + transfer_value
         IN IF previous_balance = 0
            THEN (IF transfer_value > 0 THEN 100 ELSE 0)
            ELSE Min((transfer_value * 100) \div previous_balance, 100)

check_address_reputation(address) == address \in KNOWN_GOOD_ADDRESSES

\* code: "fail" (get_code raised), "empty" or "code"
is_contract_address(code) == code = "code"

\* gas: Failed (get_transaction raised), or the transaction's gasPrice
get_transaction_gas_price(gas) == IF gas = Failed THEN 0 ELSE gas

-----------------------------------------------------------------------------
(* zircuit_listener.py: the wallet windows and evaluate_wallet_signals *)

\* mutant: a full window rejects the new signal instead of evicting the oldest
Mutant_deque_append_DropNewest(window, signal) ==
    IF Len(window) >= WindowCapacity THEN window ELSE Append(window, signal)

\* deque(maxlen=100).append
deque_append(window, signal) ==
    IF Len(window) >= WindowCapacity
    THEN Append(Tail(window), signal)
    ELSE Append(window, signal)

\* mutant: a signal exactly at the cutoff is left out
Mutant_recent_signals_StrictCutoff(window, now) ==
    LET cutoff_time == datetime_now(now) - RecentWindowSeconds
        cutoff_timestamp == datetime_timestamp(cutoff_time)
    IN SelectSeq(window, LAMBDA s : s.timestamp > cutoff_timestamp)

\* the list comprehension of evaluate_wallet_signals
recent_signals(window, now) ==
    LET cutoff_time == datetime_now(now) - RecentWindowSeconds
        cutoff_timestamp == datetime_timestamp(cutoff_time)
    IN SelectSeq(window, LAMBDA s : s.timestamp >= cutoff_timestamp)

\* mutant: only high verdicts are surfaced
Mutant_alert_condition_HighOnly(severity) == severity = "high"

\* "if severity in ['medium', 'high']"
alert_condition(severity) == severity \in {"medium", "high"}

NoEval ==
    [ran |-> FALSE, wallet |-> "none", slice |-> <<>>, severity |-> "none",
     reason |-> <<>>, insert_called |-> FALSE, alert_id |-> 0,
     upload_called |-> FALSE]

\* mutant: the upload is attempted whether or not insert_alert returned
Mutant_evaluate_wallet_signals_UploadAnyway(store, wallet, now, agent_ok, db_ok, upload_ok) ==
    LET slice == recent_signals(store.wallet_events[wallet], now)
        evaluation == evaluate_signals(slice, now, agent_ok)
        severity == evaluation.severity
        alert_id == Len(store.alerts) + 1
        row == [id |-> alert_id, wallet |-> wallet, severity |-> severity,
                reason |-> evaluation.reason]
        case_data == [wallet |-> wallet, severity |-> severity,
                      reason |-> evaluation.reason, signals |-> slice,
                      alert_id |-> IF db_ok THEN alert_id ELSE 0]
    IN IF slice = <<>>
       THEN [store EXCEPT !.lastEval = [NoEval EXCEPT !.wallet = wallet]]
       ELSE IF ~alert_condition(severity)
       THEN [store EXCEPT !.lastEval =
                [NoEval EXCEPT !.ran = TRUE, !.wallet = wallet, !.slice = slice,
                               !.severity = severity,
                               !.reason = evaluation.reason]]
       ELSE [store EXCEPT
                !.alerts = IF db_ok THEN Append(@, row) ELSE @,
                !.uploads = IF upload_ok THEN Append(@, case_data) ELSE @,
                !.lastEval =
                    [ran |-> TRUE, wallet |-> wallet, slice |-> slice,
                     severity |-> severity, reason |-> evaluation.reason,
                     insert_called |-> TRUE,
                     alert_id |-> IF db_ok THEN alert_id ELSE 0,
                     upload_called |-> TRUE]]

\* The store after evaluate_wallet_signals(wallet) at instant now.
\*   agent_ok   _agent_analysis returned (else the rule engine answers)
\*   db_ok      insert_alert returned (else it raised)
\*   upload_ok  upload_case_to_walrus returned (else it raised)
evaluate_wallet_signals(store, wallet, now, agent_ok, db_ok, upload_ok) ==
    LET slice == recent_signals(store.wallet_events[wallet], now)
        evaluation == evaluate_signals(slice, now, agent_ok)
        severity == evaluation.severity
        alert_id == Len(store.alerts) + 1
        row == [id |-> alert_id, wallet |-> wallet, severity |-> severity,
                reason |-> evaluation.reason]
        case_data == [wallet |-> wallet, severity |-> severity,
                      reason |-> evaluation.reason, signals |-> slice,
                      alert_id |-> alert_id]
    IN IF slice = <<>>
       THEN [store EXCEPT !.lastEval = [NoEval EXCEPT !.wallet = wallet]]
       ELSE IF ~alert_condition(severity)
       THEN [store EXCEPT !.lastEval =
                [NoEval EXCEPT !.ran = TRUE, !.wallet = wallet, !.slice = slice,
                               !.severity = severity,
                               !.reason = evaluation.reason]]
       ELSE [store EXCEPT
                !.alerts = IF db_ok THEN Append(@, row) ELSE @,
                !.uploads = IF db_ok /\ upload_ok THEN Append(@, case_data) ELSE @,
                !.lastEval =
                    [ran |-> TRUE, wallet |-> wallet, slice |-> slice,
                     severity |-> severity, reason |-> evaluation.reason,
                     insert_called |-> TRUE,
                     alert_id |-> IF db_ok THEN alert_id ELSE 0,
                     upload_called |-> db_ok]]

-----------------------------------------------------------------------------
(* zircuit_listener.py: process_event.                                     *)
(* An event: sig is topics[0] ("Approval", "Transfer" or another topic),   *)
(* ntopics is len(topics), from and to are the addresses of topics[1] and  *)
(* topics[2], value is the data word, decodable is FALSE when decoding     *)
(* raises (to_checksum_address or int(data, 16)).                          *)
(* An enrichment: the results of the balance, code and gas lookups.        *)

Event(sig, ntopics, from, to, value, tx_hash, blockNumber, decodable) ==
    [sig |-> sig, ntopics |-> ntopics, from |-> from, to |-> to,
     value |-> value, tx_hash |-> tx_hash, blockNumber |-> blockNumber,
     decodable |-> decodable]

\* the signal process_event builds for a decoded event
build_signal(event, enr, now) ==
    IF event.sig = "Approval"
    THEN Signal("approval", now, event.from, event.to, event.tx_hash,
                calculate_allowance_ratio(event.value, enr.balance),
                check_address_reputation(event.to),
                get_transaction_gas_price(enr.gas),
                is_contract_address(enr.code))
    ELSE Signal("transfer", now, event.from, event.to, event.tx_hash,
                calculate_transfer_ratio(event.value, enr.balance),
                TRUE,
                get_transaction_gas_price(enr.gas),
                is_contract_address(enr.code))

\* mutant: a decode step that raises does not end process_event
Mutant_appends_signal_IgnoresDecodeError(event) ==
    /\ event.ntopics >= 3
    /\ event.sig \in {"Approval", "Transfer"}

\* the event reaches the append of one of the two branches
appends_signal(event) ==
    /\ event.ntopics > 0
    /\ event.sig \in {"Approval", "Transfer"}
    /\ event.ntopics >= 3
    /\ event.decodable

\* mutant: a sink call that raises undoes the event (the append and the
\* alert row)
Mutant_process_event_SinkFailureUndoes(store, event, enr, now, eval_now, agent_ok, db_ok, upload_ok) ==
    IF ~appends_signal(event)
    THEN store
    ELSE LET signal == build_signal(event, enr, now)
             wallet == event.from
             appendedStore ==
                [store EXCEPT
                    !.wallet_events[wallet] = deque_append(@, signal),
                    !.appended[wallet] = Append(@, signal)]
             after == evaluate_wallet_signals(appendedStore, wallet, eval_now,
                                              agent_ok, db_ok, upload_ok)
         IN IF after.lastEval.insert_called /\ ~(db_ok /\ upload_ok)
            THEN [store EXCEPT !.lastEval = after.lastEval]
            ELSE after

\* mutant: one window shared by all wallets
Mutant_process_event_SharedWindow(store, event, enr, now, eval_now, agent_ok, db_ok, upload_ok) ==
    IF ~appends_signal(event)
    THEN store
    ELSE LET signal == build_signal(event, enr, now)
             wallet == event.from
             appendedStore ==
                [store EXCEPT
                    !.wallet_events = [w \in Wallets |-> deque_append(@[w], signal)],
                    !.appended[wallet] = Append(@, signal)]
         IN evaluate_wallet_signals(appendedStore, wallet, eval_now,
                                    agent_ok, db_ok, upload_ok)

\* The store after process_event(event).  now is the instant of line 63,
\* eval_now the instant evaluate_wallet_signals reads.  Line 63 stamps the
\* signal with int(datetime.now().timestamp()): the datetime comes straight
\* from the clock and carries its fold flag, so the stamp is the instant.
process_event(store, event, enr, now, eval_now, agent_ok, db_ok, upload_ok) ==
    IF ~appends_signal(event)
    THEN store
    ELSE LET signal == build_signal(event, enr, now)
             wallet == event.from
             appendedStore ==
                [store EXCEPT
                    !.wallet_events[wallet] = deque_append(@, signal),
                    !.appended[wallet] = Append(@, signal)]
         IN evaluate_wallet_signals(appendedStore, wallet, eval_now,
                                    agent_ok, db_ok, upload_ok)

Store ==
    [wallet_events |-> wallet_events, alerts |-> alerts, uploads |-> uploads,
     appended |-> appended, lastEval |-> lastEval]

SetStore(store) ==
    /\ wallet_events' = store.wallet_events
    /\ alerts' = store.alerts
    /\ uploads' = store.uploads
    /\ appended' = store.appended
    /\ lastEval' = store.lastEval

-----------------------------------------------------------------------------
(* Initial values shared by the specifications *)

EmptyWindows == [w \in Wallets |-> <<>>]

\* hist: what an observer of the polling task has seen
\*   start_block   the block number poll_for_logs started from
\*   query         (fromBlock, toBlock) of the last get_logs call
\*   ranges        the (fromBlock, toBlock) of every completed cycle that queried
\*   processed     the logs of the current batch handed to process_event
\*   skipped       the logs of the current batch the for loop passed over
\*   failed_since_connect  a ledger call of a cycle failed after the last connect
\*   stop_called   stop_monitoring was called
\*   last_call     the event and lookup results of the last direct call of
\*                 process_event (SpecEnrich, SpecIngest)
\*   sinks         for each log of the current batch whose verdict was handed
\*                 to the alert sink: its wallet and tx hash, the alert id
\*                 insert_alert returned (0 when it raised), whether the
\*                 upload returned
NoHist ==
    [start_block |-> 0, query |-> <<0, 0>>, ranges |-> <<>>,
     processed |-> <<>>, skipped |-> 0,
     failed_since_connect |-> FALSE, stop_called |-> FALSE,
     last_call |-> <<>>, sinks |-> <<>>]

\* the initial features dict of _extract_features
NoFeatures ==
    [approval_count |-> 0, transfer_count |-> 0, max_allowance_ratio |-> 0,
     total_outflow_ratio |-> 0, unknown_spender_count |-> 0,
     time_window_seconds |-> 0, gas_price_anomaly |-> FALSE,
     contract_interactions |-> 0]

InitTask ==
    /\ running = FALSE
    /\ pc = "start"
    /\ last_block = 0
    /\ current_block = 0
    /\ logs = <<>>
    /\ idx = 0
    /\ head = 0
    /\ hist = NoHist

InitStore ==
    /\ wallet_events = EmptyWindows
    /\ alerts = <<>>
    /\ uploads = <<>>
    /\ appended = EmptyWindows
    /\ lastEval = NoEval

-----------------------------------------------------------------------------
(* SpecEval: direct calls of evaluate_signals (the entry point the demo    *)
(* generator and the API use) on one slice, at one or two instants.        *)

MaxSliceLen == 5     \* longest slice drawn
MaxCalls == 2        \* calls made on the slice
ClockBase == 1000    \* the clock's initial value
EvalBase == ClockBase   \* timestamp of the slice's last signal

\* signal shapes the slices are drawn from: (type, ratio, spender known,
\* gas price, to_contract)
SampleShapes ==
    { <<"approval", 60, TRUE, 0, FALSE>>,
      <<"approval", 100, FALSE, 150, TRUE>>,
      <<"transfer", 5, TRUE, 0, FALSE>>,
      <<"transfer", 85, TRUE, 250, TRUE>> }

\* time that may pass before a call
EvalDelays == {55, 90}

\* the signals of a slice are one second apart, the last one at EvalBase
SliceOf(shapes) ==
    [i \in 1..Len(shapes) |->
        Signal(shapes[i][1], EvalBase - (Len(shapes) - i), "w1",
               IF shapes[i][3] THEN "uniswap_v2_router" ELSE UnknownAddress,
               i, shapes[i][2], shapes[i][3], shapes[i][4], shapes[i][5])]

\* the slices generate_drainer_attack produces: approvals of the whole balance
\* to one unknown spender and transfers, here in every order
DrainerApprovals == 4   \* template.get("approval_count", 4)
DrainerTransfers == 2   \* range(2)

DrainerSlices ==
    LET len == DrainerApprovals + DrainerTransfers
        approval == <<"approval", 100, FALSE, 150, TRUE>>
        transfers == {sh \in SampleShapes : sh[1] = "transfer"}
    IN {SliceOf(sh) : sh \in
           {f \in [1..len -> {approval} \cup transfers] :
               Cardinality({i \in 1..len : f[i] = approval}) = DrainerApprovals}}

EvalSlices ==
    UNION {{SliceOf(sh) : sh \in [1..n -> SampleShapes]} : n \in 0..MaxSliceLen}
    \cup DrainerSlices

InitEval ==
    /\ InitTask
    /\ InitStore
    /\ txCounter = 0
    /\ clock = EvalBase
    /\ evalSlice \in EvalSlices
    /\ featureVec = NoFeatures
    /\ calls = <<>>

\* one call of analyze_signals on the slice at the current instant
EvalCall ==
    /\ Len(calls) < MaxCalls
    /\ \E agent_ok \in BOOLEAN :
          LET features == extract_features(evalSlice, clock)
          IN calls' = Append(calls,
                [now |-> clock, agent_ok |-> agent_ok,
                 features |-> features,
                 threat |-> pattern_matching(features),
                 behavior |-> behavioral_analysis(evalSlice),
                 verdict |-> analyze_signals(evalSlice, clock, agent_ok)])
    /\ UNCHANGED <<taskVars, storeVars, txCounter, clock, evalSlice, featureVec>>

\* time passes, once
EvalTick ==
    /\ clock = EvalBase
    /\ \E d \in EvalDelays : clock' = clock + d
    /\ UNCHANGED <<taskVars, storeVars, txCounter, evalSlice, featureVec, calls>>

NextEval == EvalCall \/ EvalTick

SpecEval == InitEval /\ [][NextEval]_vars

-----------------------------------------------------------------------------
(* SpecMatch: _pattern_matching called on a feature vector.  The vectors   *)
(* are drawn field by field, on both sides of every threshold the rules    *)
(* test, and need not be the features of any slice.                        *)

MaxFeatureCount == 3   \* largest approval, transfer and unknown-spender count

FeatureVectors ==
    [approval_count : 0..MaxFeatureCount,
     transfer_count : 0..MaxFeatureCount,
     max_allowance_ratio : {0, 50, 51, 80, 81, 100},
     total_outflow_ratio : {0},
     unknown_spender_count : 0..MaxFeatureCount,
     time_window_seconds : {0, 59, 60},
     gas_price_anomaly : BOOLEAN,
     contract_interactions : {0}]

InitMatch ==
    /\ InitTask
    /\ InitStore
    /\ txCounter = 0
    /\ clock = ClockBase
    /\ evalSlice = <<>>
    /\ featureVec \in FeatureVectors
    /\ calls = <<>>

\* one call of _pattern_matching on the vector
MatchCall ==
    /\ calls = <<>>
    /\ calls' = <<[features |-> featureVec,
                   threat |-> pattern_matching(featureVec)]>>
    /\ UNCHANGED <<taskVars, storeVars, txCounter, clock, evalSlice, featureVec>>

NextMatch == MatchCall

SpecMatch == InitMatch /\ [][NextMatch]_vars

-----------------------------------------------------------------------------
(* SpecBehavior: _behavioral_analysis called on a slice, then on the slice *)
(* with further signals appended.                                          *)

MaxExtend == 1   \* signals appended to the slice

InitBehavior == InitEval

\* one call of _behavioral_analysis on the slice as it is now
BehaviorCall ==
    /\ IF calls = <<>> THEN TRUE ELSE calls[Len(calls)].signals # evalSlice
    /\ calls' = Append(calls, [signals |-> evalSlice,
                               behavior |-> behavioral_analysis(evalSlice)])
    /\ UNCHANGED <<taskVars, storeVars, txCounter, clock, evalSlice, featureVec>>

\* a further signal arrives
ExtendSlice ==
    /\ IF calls = <<>> THEN FALSE ELSE calls[Len(calls)].signals = evalSlice
    /\ Len(calls) <= MaxExtend
    /\ \E sh \in SampleShapes :
          evalSlice' = Append(evalSlice,
              Signal(sh[1], clock, "w1",
                     IF sh[3] THEN "uniswap_v2_router" ELSE UnknownAddress,
                     Len(evalSlice) + 1, sh[2], sh[3], sh[4], sh[5]))
    /\ UNCHANGED <<taskVars, storeVars, txCounter, clock, featureVec, calls>>

NextBehavior == BehaviorCall \/ ExtendSlice

SpecBehavior == InitBehavior /\ [][NextBehavior]_vars

-----------------------------------------------------------------------------
(* SpecFeatures: _extract_features and _behavioral_analysis called on a    *)
(* slice whose gas prices sit on and next to the two gas thresholds.       *)

MaxFeatureSliceLen == 5   \* longest slice drawn

\* (type, ratio, spender known, gas price, to_contract)
ThresholdShapes ==
    { <<"approval", 60, TRUE, GasAnomalyGwei, FALSE>>,
      <<"approval", 30, FALSE, GasAnomalyGwei + 1, TRUE>>,
      <<"transfer", 5, TRUE, 0, FALSE>>,
      <<"transfer", 85, TRUE, GasVeryHighGwei, TRUE>>,
      <<"transfer", 40, TRUE, GasVeryHighGwei + 1, FALSE>> }

InitFeatures ==
    /\ InitTask
    /\ InitStore
    /\ txCounter = 0
    /\ clock = EvalBase
    /\ \E n \in 0..MaxFeatureSliceLen :
          \E sh \in [1..n -> ThresholdShapes] : evalSlice = SliceOf(sh)
    /\ featureVec = NoFeatures
    /\ calls = <<>>

\* lines 359 and 361 of _agent_analysis on the slice
FeatureCall ==
    /\ calls = <<>>
    /\ featureVec' = extract_features(evalSlice, clock)
    /\ calls' = <<[signals |-> evalSlice,
                   behavior |-> behavioral_analysis(evalSlice)]>>
    /\ UNCHANGED <<taskVars, storeVars, txCounter, clock, evalSlice>>

NextFeatures == FeatureCall

SpecFeatures == InitFeatures /\ [][NextFeatures]_vars

-----------------------------------------------------------------------------
(* SpecWindow: process_event called with a stream of approval events of    *)
(* one wallet, long enough to fill the window and evict.  Every lookup of  *)
(* the stream fails, so each signal is a benign approval (ratio 0.3 to a   *)
(* known spender) and no alert is raised.                                  *)

MaxAppends == 102    \* events of the stream

AllFailed == [balance |-> Failed, code |-> "fail", gas |-> Failed]

InitWindow ==
    /\ InitTask
    /\ InitStore
    /\ txCounter = 0
    /\ clock = ClockBase
    /\ evalSlice = <<>>
    /\ featureVec = NoFeatures
    /\ calls = <<>>

WindowEvent ==
    /\ txCounter < MaxAppends
    /\ txCounter' = txCounter + 1
    /\ SetStore(process_event(Store,
                    Event("Approval", 3, "w1", "uniswap_v2_router", 50,
                          txCounter + 1, 0, TRUE),
                    AllFailed, clock, clock, TRUE, TRUE, TRUE))
    /\ UNCHANGED <<taskVars, clock, evalVars>>

NextWindow == WindowEvent

SpecWindow == InitWindow /\ [][NextWindow]_vars

-----------------------------------------------------------------------------
(* Direct calls of process_event (the entry point processEvent).           *)
(*   SpecEnrich  every combination of failing lookups; the analysis        *)
(*               pipeline and the sinks answer.                            *)
(*   SpecIngest  every lookup answers; every combination of analysis path  *)
(*               and sink outcome.                                         *)

MaxEnrichEvents == 2  \* calls of process_event under SpecEnrich
MaxEvents == 3        \* calls of process_event under SpecIngest

IngestEvents(tx) ==
    { Event(sig, 3, "w1", UnknownAddress, value, tx, 0, TRUE) :
        sig \in {"Approval", "Transfer"}, value \in {50, 200} }
    \cup { Event("Approval", 3, "w1", "uniswap_v2_router", value, tx, 0, TRUE) :
        value \in {50, 200} }

Enrichments ==
    [balance : {Failed, 200}, code : {"fail", "code"}, gas : {Failed, 250}]

AllOk == [balance |-> 200, code |-> "code", gas |-> 250]

\* the outcomes of the two sink calls: (insert_alert returned, upload returned)
SinkOutcomes == {<<TRUE, TRUE>>, <<TRUE, FALSE>>, <<FALSE, FALSE>>}

InitIngest == InitWindow

ProcessEventCall(event, enr, agent_ok, db_ok, upload_ok) ==
    /\ txCounter' = txCounter + 1
    /\ SetStore(process_event(Store, event, enr, clock, clock,
                              agent_ok, db_ok, upload_ok))
    /\ hist' = [hist EXCEPT !.last_call = <<[event |-> event, enr |-> enr]>>]
    /\ UNCHANGED <<running, pc, last_block, current_block, logs, idx, head,
                   clock, evalVars>>

EnrichEvent ==
    /\ txCounter < MaxEnrichEvents
    /\ \E event \in IngestEvents(txCounter + 1), enr \in Enrichments :
          ProcessEventCall(event, enr, TRUE, TRUE, TRUE)

NextEnrich == EnrichEvent

SpecEnrich == InitIngest /\ [][NextEnrich]_vars

IngestEvent ==
    /\ txCounter < MaxEvents
    /\ \E event \in IngestEvents(txCounter + 1),
          agent_ok \in BOOLEAN, sink \in SinkOutcomes :
          ProcessEventCall(event, AllOk, agent_ok, sink[1], sink[2])

NextIngest == IngestEvent

SpecIngest == InitIngest /\ [][NextIngest]_vars

-----------------------------------------------------------------------------
(* SpecClock: process_event called on approvals and transfers of one       *)
(* wallet at instants before and after the two changes of the host's wall  *)
(* clock.                                                                  *)

MaxClockEvents == 3   \* calls of process_event

\* the instants of the calls
ClockTimes ==
    { DstStart - 600, DstStart + 5, DstStart + RecentWindowSeconds,
      DstEnd - 1000, DstEnd + 5 }

ClockEvents(tx) ==
    { Event(sig, 3, "w1", UnknownAddress, 200, tx, 0, TRUE) :
        sig \in {"Approval", "Transfer"} }

InitClock ==
    /\ InitTask
    /\ InitStore
    /\ txCounter = 0
    /\ clock = DstStart - 600
    /\ evalSlice = <<>>
    /\ featureVec = NoFeatures
    /\ calls = <<>>

\* time passes, then a log is processed
ClockEvent ==
    /\ txCounter < MaxClockEvents
    /\ \E t \in ClockTimes, event \in ClockEvents(txCounter + 1) :
          /\ t >= clock
          /\ clock' = t
          /\ txCounter' = txCounter + 1
          /\ SetStore(process_event(Store, event, AllOk, t, t, TRUE, TRUE, TRUE))
          /\ hist' = [hist EXCEPT !.last_call = <<[event |-> event, enr |-> AllOk]>>]
    /\ UNCHANGED <<running, pc, last_block, current_block, logs, idx, head,
                   evalVars>>

NextClock == ClockEvent

SpecClock == InitClock /\ [][NextClock]_vars

-----------------------------------------------------------------------------
(* SpecRatio: process_event called on approvals and transfers of no value, *)
(* of less than, as much as and more than the balance, with the balance    *)
(* lookup failing or answering zero or a positive balance.                 *)

MaxRatioEvents == 2   \* calls of process_event

RatioEvents(tx) ==
    { Event(sig, 3, "w1", UnknownAddress, value, tx, 0, TRUE) :
        sig \in {"Approval", "Transfer"}, value \in {0, 50, 200, 300} }

RatioEnrichments == [balance : {Failed, 0, 100, 200}, code : {"code"}, gas : {250}]

InitRatio == InitWindow

RatioEvent ==
    /\ txCounter < MaxRatioEvents
    /\ \E event \in RatioEvents(txCounter + 1), enr \in RatioEnrichments :
          ProcessEventCall(event, enr, TRUE, TRUE, TRUE)

NextRatio == RatioEvent

SpecRatio == InitRatio /\ [][NextRatio]_vars

-----------------------------------------------------------------------------
(* SpecRecent: direct calls of process_event while the wall clock moves.   *)
(* datetime.now() is the wall clock, which may be set back between two     *)
(* events, so the timestamps of a window need not be sorted.               *)

MaxRecentEvents == 3   \* calls of process_event under SpecRecent

\* the instants an event may be processed at
RecentTimes ==
    {ClockBase, ClockBase + 450, ClockBase + RecentWindowSeconds,
     ClockBase + RecentWindowSeconds + 1}

RecentEvents(tx) ==
    { Event("Approval", 3, "w1", "uniswap_v2_router", 50, tx, 0, TRUE),
      Event("Transfer", 3, "w1", UnknownAddress, 50, tx, 0, TRUE) }

InitRecent == InitWindow

RecentEvent ==
    /\ txCounter < MaxRecentEvents
    /\ txCounter' = txCounter + 1
    /\ \E t \in RecentTimes, event \in RecentEvents(txCounter + 1) :
          /\ clock' = t
          /\ SetStore(process_event(Store, event, AllOk, t, t, TRUE, TRUE, TRUE))
    /\ UNCHANGED <<taskVars, evalVars>>

NextRecent == RecentEvent

SpecRecent == InitRecent /\ [][NextRecent]_vars

-----------------------------------------------------------------------------
(* Spec: one monitoring session.  The task runs start_monitoring, which    *)
(* calls connect and poll_for_logs; pc is the statement it is at:          *)
(*   start          before line 321                                        *)
(*   outer_check    while self.running            (line 323)               *)
(*   connect        await self.connect()          (line 326)               *)
(*   connect_backoff  asyncio.sleep(10); continue (line 329)               *)
(*   poll_init      last_block = block_number     (line 287)               *)
(*   poll_check     while self.running            (line 290)               *)
(*   cycle_read     current_block = block_number  (line 292)               *)
(*   get_logs       logs = get_logs(...)          (line 296)               *)
(*   batch          the for loop, then last_block = current_block          *)
(*   poll_sleep     asyncio.sleep(5)              (line 313)               *)
(*   poll_backoff   asyncio.sleep(10)             (line 317)               *)
(*   monitor_backoff  asyncio.sleep(10)           (line 338)               *)
(*   done           start_monitoring has returned                          *)
(* The finally block (disconnect, errors ignored) changes no state and is  *)
(* folded into the step that leaves the try.  The sleeps are positions of  *)
(* the task; the clock is not advanced under this specification.  The      *)
(* ledger answers the lookups of process_event, and the analysis pipeline  *)
(* and the sinks answer.                                                   *)

MaxBlock == 2        \* blocks the ledger produces
MaxBatch == 2        \* logs get_logs returns at most

\* mutant: the query starts at last_block itself
Mutant_from_block_NoIncrement(last) == last

\* 'fromBlock': last_block + 1
from_block(last) == last + 1
\* 'toBlock': current_block
to_block(current) == current

\* mutant: the polling loop does not test the flag
Mutant_poll_loop_condition_Always == TRUE

\* while self.running (line 290)
poll_loop_condition == running

\* the batches get_logs may return
LogBatches(tx) ==
    UNION {{[i \in 1..n |->
                Event(sigs[i], 3, "w1", UnknownAddress, 200, tx + i, 0, TRUE)] :
            sigs \in [1..n -> {"Approval", "Transfer"}]} : n \in 0..MaxBatch}

InitSession == InitWindow

StartMonitoring ==
    /\ pc = "start"
    /\ running' = TRUE
    /\ pc' = "outer_check"
    /\ UNCHANGED <<last_block, current_block, logs, idx, head, hist, txCounter,
                   clock, storeVars, evalVars>>

\* stop_monitoring, called from outside the task once the session has begun
StopMonitoring ==
    /\ pc \notin {"start", "done"}
    /\ running
    /\ running' = FALSE
    /\ hist' = [hist EXCEPT !.stop_called = TRUE]
    /\ UNCHANGED <<pc, last_block, current_block, logs, idx, head, txCounter,
                   clock, storeVars, evalVars>>

\* the ledger produces a block
NewBlock ==
    /\ head < MaxBlock
    /\ head' = head + 1
    /\ UNCHANGED <<running, pc, last_block, current_block, logs, idx, hist,
                   txCounter, clock, storeVars, evalVars>>

OuterCheck ==
    /\ pc = "outer_check"
    /\ pc' = IF running THEN "connect" ELSE "done"
    /\ UNCHANGED <<running, last_block, current_block, logs, idx, head, hist,
                   txCounter, clock, storeVars, evalVars>>

\* connect returns True or False (it catches its own exceptions)
Connect ==
    /\ pc = "connect"
    /\ \E connected \in BOOLEAN :
          pc' = IF connected THEN "poll_init" ELSE "connect_backoff"
    /\ hist' = [hist EXCEPT !.failed_since_connect = FALSE]
    /\ UNCHANGED <<running, last_block, current_block, logs, idx, head,
                   txCounter, clock, storeVars, evalVars>>

\* mutant: a failed connect or a failure of poll_for_logs ends the task
Mutant_ConnectBackoff_Fatal ==
    /\ pc \in {"connect_backoff", "monitor_backoff"}
    /\ pc' = "done"
    /\ UNCHANGED <<running, last_block, current_block, logs, idx, head, hist,
                   txCounter, clock, storeVars, evalVars>>

\* the sleeps of start_monitoring, then finally, then the loop test
ConnectBackoff ==
    /\ pc \in {"connect_backoff", "monitor_backoff"}
    /\ pc' = "outer_check"
    /\ UNCHANGED <<running, last_block, current_block, logs, idx, head, hist,
                   txCounter, clock, storeVars, evalVars>>

\* line 287, outside the try of poll_for_logs: a failure propagates to
\* start_monitoring
PollInit ==
    /\ pc = "poll_init"
    /\ \/ /\ last_block' = head
          /\ hist' = [hist EXCEPT !.start_block = head]
          /\ pc' = "poll_check"
       \/ /\ pc' = "monitor_backoff"
          /\ UNCHANGED <<last_block, hist>>
    /\ UNCHANGED <<running, current_block, logs, idx, head, txCounter, clock,
                   storeVars, evalVars>>

\* line 290: a cycle starts, or poll_for_logs returns
PollCheck ==
    /\ pc = "poll_check"
    /\ pc' = IF poll_loop_condition THEN "cycle_read" ELSE "outer_check"
    /\ UNCHANGED <<running, last_block, current_block, logs, idx, head, hist,
                   txCounter, clock, storeVars, evalVars>>

\* lines 292-294
CycleRead ==
    /\ pc = "cycle_read"
    /\ \/ /\ current_block' = head
          /\ pc' = IF head > last_block THEN "get_logs" ELSE "poll_sleep"
          /\ UNCHANGED hist
       \/ /\ pc' = "poll_backoff"
          /\ hist' = [hist EXCEPT !.failed_since_connect = TRUE]
          /\ UNCHANGED current_block
    /\ UNCHANGED <<running, last_block, logs, idx, head, txCounter, clock,
                   storeVars, evalVars>>

\* lines 296-302, get_logs answering with one of batches
GetLogsFrom(batches) ==
    /\ pc = "get_logs"
    /\ \/ \E batch \in batches :
             /\ logs' = batch
             /\ idx' = 0
             /\ txCounter' = txCounter + Len(batch)
             /\ hist' = [hist EXCEPT
                            !.query = <<from_block(last_block),
                                        to_block(current_block)>>,
                            !.processed = <<>>, !.skipped = 0, !.sinks = <<>>]
             /\ pc' = "batch"
       \/ /\ pc' = "poll_backoff"
          /\ hist' = [hist EXCEPT !.failed_since_connect = TRUE]
          /\ UNCHANGED <<logs, idx, txCounter>>
    /\ UNCHANGED <<running, last_block, current_block, head, clock, storeVars,
                   evalVars>>

GetLogs == GetLogsFrom(LogBatches(txCounter))

\* what the for loop observes of the sink calls made for event
SinkObservation(before, after, event) ==
    IF appends_signal(event) /\ after.lastEval.insert_called
    THEN <<[wallet |-> event.from, tx_hash |-> event.tx_hash,
            alert_id |-> after.lastEval.alert_id,
            uploaded |-> Len(after.uploads) > Len(before.uploads)]>>
    ELSE <<>>

\* lines 306-308: one iteration of the for loop; db_ok and upload_ok are the
\* outcomes of the sink calls, should the verdict reach the sink
BatchLogWith(db_ok, upload_ok) ==
    /\ pc = "batch"
    /\ idx < Len(logs)
    /\ idx' = idx + 1
    /\ IF running
       THEN LET after == process_event(Store, logs[idx + 1], AllOk, clock,
                                       clock, TRUE, db_ok, upload_ok)
            IN /\ SetStore(after)
               /\ hist' = [hist EXCEPT
                     !.processed = Append(@, logs[idx + 1].tx_hash),
                     !.sinks = @ \o SinkObservation(Store, after, logs[idx + 1])]
       ELSE /\ hist' = [hist EXCEPT !.skipped = @ + 1]
            /\ UNCHANGED storeVars
    /\ UNCHANGED <<running, pc, last_block, current_block, logs, head,
                   txCounter, clock, evalVars>>

BatchLog == BatchLogWith(TRUE, TRUE)

\* line 310, after the for loop
BatchEnd ==
    /\ pc = "batch"
    /\ idx = Len(logs)
    /\ last_block' = current_block
    /\ hist' = [hist EXCEPT !.ranges = Append(@, hist.query)]
    /\ pc' = "poll_sleep"
    /\ UNCHANGED <<running, current_block, logs, idx, head, txCounter, clock,
                   storeVars, evalVars>>

\* mutant: the sleep after a failed cycle gives up the cycle's block range
Mutant_PollSleep_SkipsFailedRange ==
    /\ pc \in {"poll_sleep", "poll_backoff"}
    /\ pc' = "poll_check"
    /\ last_block' = IF pc = "poll_backoff" THEN current_block ELSE last_block
    /\ UNCHANGED <<running, current_block, logs, idx, head, hist,
                   txCounter, clock, storeVars, evalVars>>

\* lines 313 and 317: the sleeps of poll_for_logs
PollSleep ==
    /\ pc \in {"poll_sleep", "poll_backoff"}
    /\ pc' = "poll_check"
    /\ UNCHANGED <<running, last_block, current_block, logs, idx, head, hist,
                   txCounter, clock, storeVars, evalVars>>

\* the steps of the task outside the body of the for loop
ControlStep ==
    \/ StartMonitoring
    \/ OuterCheck
    \/ Connect
    \/ ConnectBackoff
    \/ PollInit
    \/ PollCheck
    \/ CycleRead
    \/ GetLogs
    \/ BatchEnd
    \/ PollSleep

TaskStep == ControlStep \/ BatchLog

Next == TaskStep \/ StopMonitoring \/ NewBlock

Spec == InitSession /\ [][Next]_vars

\* an iteration of the for loop, seen by its index alone: under Spec the steps
\* that satisfy it are the BatchLog steps
ForLoopStep ==
    /\ pc = "batch"
    /\ idx < Len(logs)
    /\ idx' = idx + 1

\* The event loop runs the task whenever it can run: every ledger call
\* returns or raises, every sleep ends, every call of process_event returns
\* (it catches its own exceptions).
FairSpec == Spec /\ WF_vars(ControlStep) /\ WF_idx(ForLoopStep)

-----------------------------------------------------------------------------
(* SpecBatch: a monitoring session that is not stopped, whose batches hold *)
(* logs of two wallets and logs process_event cannot decode, and whose     *)
(* sink calls return or raise.                                             *)

\* the logs get_logs may return at position tx: approvals and transfers of
\* w1, an approval of w2, and four logs that do not decode (no topics, two
\* topics, an unknown topic, an address or data word that does not parse)
BatchEvents(tx) ==
    { Event("Approval", 3, "w1", UnknownAddress, 200, tx, 0, TRUE),
      Event("Transfer", 3, "w1", UnknownAddress, 200, tx, 0, TRUE),
      Event("Approval", 3, "w2", UnknownAddress, 200, tx, 0, TRUE),
      Event("Approval", 0, "w1", UnknownAddress, 200, tx, 0, TRUE),
      Event("Approval", 2, "w1", UnknownAddress, 200, tx, 0, TRUE),
      Event("Other", 3, "w1", UnknownAddress, 200, tx, 0, TRUE),
      Event("Transfer", 3, "w1", UnknownAddress, 200, tx, 0, FALSE) }

MaxBatchLogs == 3   \* logs the batches of a session hold in total

AnyLogBatches(tx) ==
    UNION {{b \in [1..n -> UNION {BatchEvents(tx + i) : i \in 1..n}] :
               \A i \in 1..n : b[i].tx_hash = tx + i} :
           n \in 0..Min(MaxBatch, MaxBatchLogs - tx)}

InitBatch == InitWindow

GetAnyLogs == GetLogsFrom(AnyLogBatches(txCounter))

BatchLogSinks == \E sink \in SinkOutcomes : BatchLogWith(sink[1], sink[2])

NextBatch ==
    \/ StartMonitoring
    \/ OuterCheck
    \/ Connect
    \/ ConnectBackoff
    \/ PollInit
    \/ PollCheck
    \/ CycleRead
    \/ GetAnyLogs
    \/ BatchLogSinks
    \/ BatchEnd
    \/ PollSleep
    \/ NewBlock

SpecBatch == InitBatch /\ [][NextBatch]_vars

-----------------------------------------------------------------------------
(* Claims about evaluate_signals, checked under SpecEval *)

SevRank(x) == CASE x = "low" -> 0 [] x = "medium" -> 1 [] x = "high" -> 2

HasPattern(threat, p) == \E k \in 1..Len(threat.patterns) : threat.patterns[k] = p

\* seconds between the slice's earliest signal and the instant now
SliceAge(now) ==
    IF evalSlice = <<>> THEN 0
    ELSE now - (CHOOSE t \in {evalSlice[k].timestamp : k \in 1..Len(evalSlice)} :
                   \A k \in 1..Len(evalSlice) : t <= evalSlice[k].timestamp)

\* seconds between the slice's earliest and latest signal
SliceSpan ==
    IF evalSlice = <<>> THEN 0
    ELSE LET ts == {evalSlice[k].timestamp : k \in 1..Len(evalSlice)}
         IN (CHOOSE t \in ts : \A u \in ts : u <= t)
            - (CHOOSE t \in ts : \A u \in ts : t <= u)

\* C8: for every pipeline verdict the final severity is the maximum of the
\* pattern severity and the behavioural severity under low < medium < high.
C8_FinalSeverityIsMax ==
    \A i \in 1..Len(calls) :
        calls[i].agent_ok =>
            /\ calls[i].verdict.severity \in {"low", "medium", "high"}
            /\ SevRank(calls[i].verdict.severity)
                 = Max(SevRank(calls[i].threat.severity),
                       SevRank(calls[i].behavior.severity))

C8_Witness ==
    \E i \in 1..Len(calls) :
        /\ calls[i].agent_ok
        /\ calls[i].threat.severity = "medium"
        /\ calls[i].behavior.severity = "high"
        /\ calls[i].verdict.severity = "high"

FlashLoanSlice ==
    /\ \E k \in 1..Len(evalSlice) :
          evalSlice[k].type = "approval" /\ evalSlice[k].ratio > 50
    /\ \E k \in 1..Len(evalSlice) : evalSlice[k].type = "transfer"

FlashLoanReported(c) ==
    /\ HasPattern(c.threat, "flash_loan_attack")
    /\ c.threat.severity = "high"
    /\ ~HasPattern(c.threat, "drainer_pattern") => c.threat.confidence = 90

DrainerScenarioSlice ==
    LET n == Len(evalSlice)
        approvals == {k \in 1..n : evalSlice[k].type = "approval"}
        transfers == {k \in 1..n : evalSlice[k].type = "transfer"}
    IN /\ Cardinality(approvals) = 4
       /\ Cardinality(transfers) = 2
       /\ \A k \in approvals :
             /\ evalSlice[k].ratio = 100
             /\ ~evalSlice[k].spender_known
       /\ \A k, m \in approvals :
             /\ evalSlice[k].counterparty = evalSlice[m].counterparty
             /\ evalSlice[k].wallet = evalSlice[m].wallet

\* C11: on a slice of four approvals at ratio 1.0 to the same unknown spender
\* and two transfers the pattern matcher reports drainer_pattern, severity
\* high, confidence 0.95.
C11_DrainerScenario ==
    \A i \in 1..Len(calls) :
        DrainerScenarioSlice =>
            /\ HasPattern(calls[i].threat, "drainer_pattern")
            /\ calls[i].threat.severity = "high"
            /\ calls[i].threat.confidence = 95

\* the scenario evaluated after the flash-loan minute: drainer_pattern, and
\* sandwich_attack through the gas price of the approvals
C11_Witness ==
    /\ DrainerScenarioSlice
    /\ \E i \in 1..Len(calls) :
          /\ calls[i].features.unknown_spender_count = 4
          /\ calls[i].threat.patterns = <<"drainer_pattern", "sandwich_attack">>
          /\ calls[i].threat.severity = "high"
          /\ calls[i].threat.confidence = 95

\* C12 as stated: whenever no pattern matches and no behavioural contribution
\* triggers (the single transfer at ratio 0.05 is such a slice), evaluate
\* returns severity low and exactly the default reason of the combiner.
C12_QuietWalletDefaultReason ==
    \A i \in 1..Len(calls) :
        ( /\ Len(evalSlice) >= 1
          /\ calls[i].threat.patterns = <<>>
          /\ calls[i].behavior.anomalies = <<>> )
        => /\ calls[i].verdict.severity = "low"
           /\ calls[i].verdict.reason =
                 <<Clause("Standard security evaluation completed", <<>>)>>

\* C22: the confidence of a verdict of the pattern/behaviour pipeline is the
\* larger of the pattern confidence and the behavioural risk score capped at
\* 1.0, and lies in [0, 1].
C22_ConfidenceIsMaxOfBoth ==
    \A i \in 1..Len(calls) :
        calls[i].agent_ok =>
            LET pc0 == calls[i].threat.confidence
                r == calls[i].behavior.risk_score
                bc == IF r < 100 THEN r ELSE 100
                v == calls[i].verdict.confidence
            IN /\ v = (IF pc0 >= bc THEN pc0 ELSE bc)
               /\ 0 <= v
               /\ v <= 100

\* sandwich_attack alone (0.8) on a slice whose behavioural score is 0.9
C22_Witness ==
    \E i \in 1..Len(calls) :
        /\ calls[i].agent_ok
        /\ calls[i].threat.confidence = 80
        /\ calls[i].behavior.risk_score = 90
        /\ calls[i].verdict.confidence = 90

\* C23: the reason of a verdict of the pattern/behaviour pipeline is the
\* pattern clause, present iff a pattern matched, followed by the anomaly
\* clause, present iff an anomaly was recorded; the default string stands
\* iff both are absent; the reason is never empty.
C23_ReasonClauses ==
    \A i \in 1..Len(calls) :
        calls[i].agent_ok =>
            LET P == calls[i].threat.patterns
                A == calls[i].behavior.anomalies
                R == calls[i].verdict.reason
                pattern_clause ==
                    [label |-> "Detected patterns", items |-> P, pct |-> 0]
                anomaly_clause ==
                    [label |-> "Behavioral anomalies", items |-> A, pct |-> 0]
                default_clause ==
                    [label |-> "Standard security evaluation completed",
                     items |-> <<>>, pct |-> 0]
            IN /\ R # <<>>
               /\ (P # <<>> /\ A # <<>>) => R = <<pattern_clause, anomaly_clause>>
               /\ (P # <<>> /\ A = <<>>) => R = <<pattern_clause>>
               /\ (P = <<>> /\ A # <<>>) => R = <<anomaly_clause>>
               /\ (P = <<>> /\ A = <<>>) => R = <<default_clause>>
               /\ (\E k \in 1..Len(R) : R[k] = default_clause)
                     <=> (P = <<>> /\ A = <<>>)

\* a verdict with both clauses, and one with the anomaly clause alone
C23_Witness ==
    /\ Len(calls) = 2
    /\ calls[1].agent_ok
    /\ calls[2].agent_ok
    /\ Len(calls[1].verdict.reason) = 2
    /\ calls[1].verdict.reason[1].label = "Detected patterns"
    /\ calls[1].verdict.reason[2].label = "Behavioral anomalies"
    /\ Len(calls[2].verdict.reason) = 1
    /\ calls[2].verdict.reason[1].label = "Behavioral anomalies"

\* C24: the recommendations of a verdict of the pattern/behaviour pipeline
\* are the block of the final severity alone (4 entries for high, 3 for
\* medium, 2 for low), then the drainer addendum iff drainer_pattern
\* matched, then the flash-loan addendum iff flash_loan_attack matched, then
\* the gas addendum iff gas_price_anomaly is set.
C24_RecommendationLadder ==
    \A i \in 1..Len(calls) :
        calls[i].agent_ok =>
            LET sev == calls[i].verdict.severity
                block ==
                    CASE sev = "high" ->
                            <<"revoke approvals", "rotate signer",
                              "transfer assets", "review history">>
                      [] sev = "medium" ->
                            <<"limit approvals", "monitor activity",
                              "hardware wallet">>
                      [] OTHER -> <<"continue practices", "periodic review">>
                drainer == HasPattern(calls[i].threat, "drainer_pattern")
                flash == HasPattern(calls[i].threat, "flash_loan_attack")
                gas == calls[i].features.gas_price_anomaly
            IN /\ Len(block) = (CASE sev = "high" -> 4 [] sev = "medium" -> 3
                                  [] OTHER -> 2)
               /\ calls[i].verdict.recommendations =
                     block
                     \o (IF drainer THEN <<"avoid unknown dapps">> ELSE <<>>)
                     \o (IF flash THEN <<"mev and flash loan caution">> ELSE <<>>)
                     \o (IF gas THEN <<"review gas settings">> ELSE <<>>)

\* a high verdict with the three addenda, in order
C24_Witness ==
    \E i \in 1..Len(calls) :
        /\ calls[i].agent_ok
        /\ calls[i].verdict.severity = "high"
        /\ Len(calls[i].verdict.recommendations) = 7
        /\ calls[i].verdict.recommendations[5] = "avoid unknown dapps"
        /\ calls[i].verdict.recommendations[6] = "mev and flash loan caution"
        /\ calls[i].verdict.recommendations[7] = "review gas settings"

-----------------------------------------------------------------------------
(* Claims about _pattern_matching, checked under SpecMatch *)

\* C13: a feature vector with no approvals and no transfers matches no rule,
\* whatever its other fields: empty pattern list, confidence 0.0, severity low.
C13_NoSignalsNoPattern ==
    \A i \in 1..Len(calls) :
        (calls[i].features.approval_count = 0
            /\ calls[i].features.transfer_count = 0)
        => /\ calls[i].threat.patterns = <<>>
           /\ calls[i].threat.confidence = 0
           /\ calls[i].threat.severity = "low"

\* no approvals, no transfers, every other field past its threshold
C13_Witness ==
    /\ Len(calls) = 1
    /\ calls[1].features.approval_count = 0
    /\ calls[1].features.transfer_count = 0
    /\ calls[1].features.unknown_spender_count >= 2
    /\ calls[1].features.max_allowance_ratio = 100
    /\ calls[1].features.time_window_seconds = 0
    /\ calls[1].features.gas_price_anomaly
    /\ calls[1].threat.patterns = <<>>

\* C20: the pattern list is exactly the rules whose predicate holds, in the
\* order flash_loan_attack, drainer_pattern, sandwich_attack; the confidence
\* is the largest of 0.9, 0.95, 0.8 among the matched rules (0.0 for none);
\* the severity is high when flash_loan_attack or drainer_pattern matched,
\* medium when only sandwich_attack matched, low when none did.
C20_AllMatchesReported ==
    \A i \in 1..Len(calls) :
        LET f == calls[i].features
            fl == /\ f.approval_count >= 1 /\ f.transfer_count >= 1
                  /\ f.time_window_seconds < 60 /\ f.max_allowance_ratio > 50
            dr == /\ f.approval_count >= 3 /\ f.unknown_spender_count >= 2
                  /\ f.max_allowance_ratio > 80
            sw == /\ f.approval_count >= 1 /\ f.transfer_count >= 2
                  /\ f.gas_price_anomaly
        IN /\ calls[i].threat.patterns =
                 (IF fl THEN <<"flash_loan_attack">> ELSE <<>>)
                 \o (IF dr THEN <<"drainer_pattern">> ELSE <<>>)
                 \o (IF sw THEN <<"sandwich_attack">> ELSE <<>>)
           /\ calls[i].threat.confidence =
                 (IF dr THEN 95 ELSE IF fl THEN 90 ELSE IF sw THEN 80 ELSE 0)
           /\ calls[i].threat.severity =
                 (IF fl \/ dr THEN "high" ELSE IF sw THEN "medium" ELSE "low")

\* all three rules matched and reported
C20_Witness ==
    /\ Len(calls) = 1
    /\ calls[1].threat.patterns =
          <<"flash_loan_attack", "drainer_pattern", "sandwich_attack">>
    /\ calls[1].threat.confidence = 95
    /\ calls[1].threat.severity = "high"

-----------------------------------------------------------------------------
(* Claims about _behavioral_analysis, checked under SpecBehavior *)

IsPrefix(s, t) == Len(s) <= Len(t) /\ SubSeq(t, 1, Len(s)) = s

\* C14: when a slice is a prefix of another (signals were appended), the
\* behavioural risk score and the behavioural severity of the longer slice
\* are at least those of the shorter one.
C14_BehaviorMonotone ==
    \A i, j \in 1..Len(calls) :
        IsPrefix(calls[i].signals, calls[j].signals)
        => /\ calls[i].behavior.risk_score <= calls[j].behavior.risk_score
           /\ SevRank(calls[i].behavior.severity)
                <= SevRank(calls[j].behavior.severity)

\* four signals with score 0, and a fifth that makes all three contributions
\* true at once
C14_Witness ==
    /\ Len(calls) = 2
    /\ Len(calls[1].signals) = 4
    /\ calls[2].signals = evalSlice
    /\ Len(evalSlice) = 5
    /\ IsPrefix(calls[1].signals, evalSlice)
    /\ calls[1].behavior.risk_score = 0
    /\ calls[2].behavior.risk_score = 90
    /\ calls[2].behavior.severity = "high"

-----------------------------------------------------------------------------
(* Claims about _behavioral_analysis and _extract_features, checked under  *)
(* SpecFeatures                                                            *)

\* C21: the behavioural risk score is 0.3 if the slice has at least 5
\* signals, plus 0.2 if some gas price is strictly above 200 gwei, plus 0.4
\* if at least 3 signals are contract-directed, so at most 0.9; the severity
\* is high iff the score is at least 0.7, medium iff it is at least 0.4 and
\* below 0.7, low otherwise; the anomaly list has one description per
\* triggered contribution, in that order.
C21_BehaviorScoreIsSumOfContributions ==
    \A c \in 1..Len(calls) :
        LET S == calls[c].signals
            b == calls[c].behavior
            freq == Len(S) >= 5
            gas == \E i \in 1..Len(S) : S[i].gas_price > 200
            ctr == Cardinality({i \in 1..Len(S) : S[i].to_contract}) >= 3
        IN /\ b.risk_score = (IF freq THEN 30 ELSE 0) + (IF gas THEN 20 ELSE 0)
                               + (IF ctr THEN 40 ELSE 0)
           /\ b.risk_score <= 90
           /\ b.severity = "high" <=> b.risk_score >= 70
           /\ b.severity = "medium" <=> (b.risk_score >= 40 /\ b.risk_score < 70)
           /\ b.severity = "low" <=> b.risk_score < 40
           /\ b.anomalies =
                 (IF freq THEN <<"High transaction frequency">> ELSE <<>>)
                 \o (IF gas THEN <<"Unusually high gas prices">> ELSE <<>>)
                 \o (IF ctr THEN <<"Multiple contract interactions">> ELSE <<>>)

\* five signals, three of them contract-directed, the largest gas price
\* exactly 200 gwei: score 0.7, two anomalies, high
C21_Witness ==
    /\ Len(calls) = 1
    /\ Len(calls[1].signals) = 5
    /\ \E i \in 1..5 : calls[1].signals[i].gas_price = 200
    /\ \A i \in 1..5 : calls[1].signals[i].gas_price <= 200
    /\ calls[1].behavior.risk_score = 70
    /\ Len(calls[1].behavior.anomalies) = 2
    /\ calls[1].behavior.severity = "high"

\* the sum of the ratios of the transfer signals among the first k signals
RECURSIVE OutflowUpTo(_, _)
OutflowUpTo(S, k) ==
    IF k = 0 THEN 0
    ELSE OutflowUpTo(S, k - 1) + (IF S[k].type = "transfer" THEN S[k].ratio ELSE 0)

\* C25: the feature vector of a slice counts its approval signals and its
\* transfer signals, takes the maximum ratio over the approval signals only
\* (0 when there is none) and the sum of the ratios over the transfer
\* signals only, counts the approvals whose spender is not known and the
\* contract-directed signals of either kind, and sets gas_price_anomaly iff
\* some gas price is strictly above 100 gwei; an empty slice gives the zero
\* vector.
C25_FeatureVectorOfSlice ==
    calls # <<>> =>
        LET S == evalSlice
            n == Len(S)
            A == {i \in 1..n : S[i].type = "approval"}
            T == {i \in 1..n : S[i].type = "transfer"}
            f == featureVec
        IN /\ f.approval_count = Cardinality(A)
           /\ f.transfer_count = Cardinality(T)
           /\ \A i \in A : S[i].ratio <= f.max_allowance_ratio
           /\ f.max_allowance_ratio = 0 \/ \E i \in A : S[i].ratio = f.max_allowance_ratio
           /\ f.total_outflow_ratio = OutflowUpTo(S, n)
           /\ f.unknown_spender_count =
                 Cardinality({i \in A : ~S[i].spender_known})
           /\ f.contract_interactions =
                 Cardinality({i \in 1..n : S[i].to_contract})
           /\ f.gas_price_anomaly <=> \E i \in 1..n : S[i].gas_price > 100
           /\ n = 0 => f = NoFeatures

\* one approval at exactly 100 gwei and two transfers at no gas price:
\* the counts, the maximum over the approval, the sum over the transfers,
\* and no gas anomaly
C25_Witness ==
    /\ calls # <<>>
    /\ Len(evalSlice) = 3
    /\ \E i \in 1..3 : evalSlice[i].gas_price = 100
    /\ featureVec.approval_count = 1
    /\ featureVec.transfer_count = 2
    /\ featureVec.max_allowance_ratio = 60
    /\ featureVec.total_outflow_ratio = 10
    /\ featureVec.unknown_spender_count = 0
    /\ featureVec.contract_interactions = 0
    /\ ~featureVec.gas_price_anomaly

-----------------------------------------------------------------------------
(* Claims about the evaluated slice, checked under SpecRecent *)

\* C15: the slice evaluated for a wallet is exactly the signals of its window
\* whose timestamp is at least the evaluation instant minus 15 minutes, in
\* window order: its j-th signal is the j-th qualifying signal of the window.
C15_SliceIsRecentInOrder ==
    lastEval.ran =>
        LET W == wallet_events[lastEval.wallet]
            S == lastEval.slice
            keep == {k \in 1..Len(W) : W[k].timestamp >= clock - 900}
        IN /\ Len(S) = Cardinality(keep)
           /\ \A j \in 1..Len(S) :
                 S[j] = W[CHOOSE k \in keep :
                             Cardinality({m \in keep : m <= k}) = j]

\* an unsorted window: the second signal is older than the first and older
\* than the cutoff, the first and the third are evaluated
C15_Witness ==
    /\ lastEval.ran
    /\ Len(wallet_events["w1"]) = 3
    /\ wallet_events["w1"][2].timestamp < wallet_events["w1"][1].timestamp
    /\ wallet_events["w1"][2].timestamp < clock - 900
    /\ lastEval.slice = <<wallet_events["w1"][1], wallet_events["w1"][3]>>

-----------------------------------------------------------------------------
(* Claims about the batches of a session, checked under SpecBatch *)

\* a signal with this transaction hash is in the sequence
HasTx(signals, tx) == \E j \in 1..Len(signals) : signals[j].tx_hash = tx

\* C16: a log that cannot be processed (no topics, fewer than three topics,
\* an unknown topic, a decode step that raises) is skipped: no signal is
\* appended to any window for it, a log that can be processed leaves its
\* signal in its wallet's window, every log of the batch up to the loop
\* index was handed to process_event in order, the for loop ends only at the
\* end of the batch, and after the loop last_block is the toBlock queried.
C16_UndecodableLogSkipped ==
    /\ idx <= Len(logs)
    /\ pc # "batch" => idx = Len(logs)
    /\ pc # "get_logs" =>
          /\ Len(hist.processed) = idx
          /\ \A k \in 1..idx :
                /\ hist.processed[k] = logs[k].tx_hash
                /\ IF /\ logs[k].ntopics >= 3
                      /\ logs[k].sig \in {"Approval", "Transfer"}
                      /\ logs[k].decodable
                   THEN /\ HasTx(appended[logs[k].from], logs[k].tx_hash)
                        /\ HasTx(wallet_events[logs[k].from], logs[k].tx_hash)
                   ELSE \A w \in Wallets :
                           /\ ~HasTx(appended[w], logs[k].tx_hash)
                           /\ ~HasTx(wallet_events[w], logs[k].tx_hash)
    /\ (pc = "poll_sleep" /\ hist.ranges # <<>>) =>
          /\ last_block = hist.query[2]
          /\ last_block = current_block

\* a batch whose first log does not decode and whose second log does has
\* been processed to its end, and last_block has advanced
C16_Witness ==
    /\ pc = "poll_sleep"
    /\ Len(logs) = 2
    /\ idx = 2
    /\ ~logs[1].decodable
    /\ appends_signal(logs[2])
    /\ HasTx(wallet_events[logs[2].from], logs[2].tx_hash)
    /\ hist.processed = <<logs[1].tx_hash, logs[2].tx_hash>>
    /\ last_block > hist.start_block

\* C17: a sink call that fails after a medium or high verdict is absorbed:
\* process_event returns to the for loop (every log up to the loop index was
\* handed to it and the loop ends only at the end of the batch), the signal
\* of the log whose verdict reached the sink is in its wallet's window, and
\* the alert row insert_alert recorded is in the store whether or not the
\* upload returned.
C17_SinkFailureAbsorbed ==
    /\ pc # "batch" => idx = Len(logs)
    /\ pc # "get_logs" => Len(hist.processed) = idx
    /\ \A n \in 1..Len(hist.sinks) :
          LET e == hist.sinks[n]
          IN /\ HasTx(wallet_events[e.wallet], e.tx_hash)
             /\ \E k \in 1..idx : logs[k].tx_hash = e.tx_hash
             /\ e.uploaded => e.alert_id # 0
             /\ e.alert_id # 0 =>
                   /\ e.alert_id <= Len(alerts)
                   /\ alerts[e.alert_id].id = e.alert_id
                   /\ alerts[e.alert_id].wallet = e.wallet
                   /\ alerts[e.alert_id].severity \in {"medium", "high"}

\* a batch of two logs has been processed to its end: insert_alert raised
\* for the first, the upload raised for the second, whose alert row is kept
C17_Witness ==
    /\ pc = "poll_sleep"
    /\ Len(logs) = 2
    /\ Len(hist.processed) = 2
    /\ Len(hist.sinks) = 2
    /\ hist.sinks[1].tx_hash = logs[1].tx_hash
    /\ hist.sinks[1].alert_id = 0
    /\ hist.sinks[2].tx_hash = logs[2].tx_hash
    /\ hist.sinks[2].alert_id # 0
    /\ ~hist.sinks[2].uploaded
    /\ Len(alerts) >= hist.sinks[2].alert_id
    /\ HasTx(wallet_events[hist.sinks[1].wallet], logs[1].tx_hash)

\* C19: a step changes a wallet's window only when it is process_event
\* appending the signal of a decodable Approval or Transfer log of that
\* wallet (the owner of the approval, the sender of the transfer): the new
\* window is the old one, without its oldest entry when it was full, followed
\* by that signal.  Every other step (a log of another wallet, the
\* evaluation, the sinks, the polling steps) leaves the window as it was, and
\* the entries that stay are unchanged.
C19_WindowChangedOnlyByOwnAppend ==
    [][\A w \in Wallets :
          wallet_events'[w] # wallet_events[w] =>
             /\ pc = "batch"
             /\ idx < Len(logs)
             /\ IF idx < Len(logs)
                THEN LET log == logs[idx + 1]
                         old == wallet_events[w]
                         new == wallet_events'[w]
                     IN /\ log.from = w
                        /\ log.sig \in {"Approval", "Transfer"}
                        /\ log.ntopics >= 3
                        /\ log.decodable
                        /\ Len(new) > 0
                        /\ new[Len(new)].wallet = w
                        /\ new[Len(new)].tx_hash = log.tx_hash
                        /\ new[Len(new)].type =
                              (IF log.sig = "Approval" THEN "approval"
                                                      ELSE "transfer")
                        /\ new = IF Len(old) < 100
                                 THEN Append(old, new[Len(new)])
                                 ELSE Append(Tail(old), new[Len(new)])
                ELSE FALSE]_vars

\* both wallets have a signal in their window, the last log processed was
\* of the first wallet, and an alert was recorded for it
C19_Witness ==
    /\ Len(wallet_events["w1"]) >= 1
    /\ Len(wallet_events["w2"]) >= 1
    /\ Len(alerts) >= 1
    /\ lastEval.wallet = "w1"
    /\ lastEval.insert_called
    /\ pc = "poll_sleep"
    /\ wallet_events["w2"][1].tx_hash < wallet_events["w1"][Len(wallet_events["w1"])].tx_hash

-----------------------------------------------------------------------------
(* Claims about last_block, checked under Spec *)

\* C28: last_block never decreases; it changes only when poll_for_logs
\* starts and at the end of a cycle whose ledger calls answered, after the
\* for loop, where it becomes the toBlock of the cycle's query.  A cycle
\* whose ledger call fails and a cycle in which current_block is not greater
\* than last_block leave last_block and the store unchanged and hand no log
\* to process_event; the query of the next cycle starts at last_block + 1
\* again, and ends at a block not below the one the failed cycle read.
C28_LastBlockAdvancesOnlyAfterCycle ==
    [][/\ last_block' >= last_block
       /\ current_block' >= current_block
       /\ last_block' # last_block =>
             \/ pc = "poll_init" /\ pc' = "poll_check"
             \/ /\ pc = "batch" /\ pc' = "poll_sleep"
                /\ idx = Len(logs)
                /\ last_block' = current_block
                /\ last_block' = hist.query[2]
       /\ pc' = "poll_backoff" =>
             /\ pc \in {"cycle_read", "get_logs", "poll_backoff"}
             /\ last_block' = last_block
             /\ wallet_events' = wallet_events
             /\ alerts' = alerts
             /\ hist'.processed = hist.processed
       /\ (pc = "cycle_read" /\ pc' = "poll_sleep") =>
             /\ current_block' <= last_block
             /\ last_block' = last_block
             /\ wallet_events' = wallet_events
             /\ hist'.processed = hist.processed
       /\ (pc = "get_logs" /\ pc' = "batch") =>
             /\ hist'.query[1] = last_block + 1
             /\ hist'.query[2] = current_block
             /\ hist'.query[2] >= hist'.query[1]
      ]_vars

\* a cycle failed when the ledger was one block ahead; a later cycle queried
\* from the same first block, up to the block produced meanwhile
C28_Witness ==
    /\ hist.failed_since_connect
    /\ pc = "batch"
    /\ Len(hist.ranges) = 0
    /\ hist.query[1] = hist.start_block + 1
    /\ hist.query[2] = hist.query[1] + 1
    /\ last_block = hist.start_block
    /\ Len(logs) >= 1

-----------------------------------------------------------------------------
(* Claims about the retry loops, checked under FairSpec *)

\* the task is in one of its backoff sleeps: a ledger call has just failed
InBackoff == pc \in {"connect_backoff", "monitor_backoff", "poll_backoff"}

\* C18: in a session that is never stopped the task never ends; after a
\* failed connect or a failure of poll_for_logs it connects again, after a
\* failed cycle it starts another cycle; and if from some point on no ledger
\* call fails, the task polls forever and last_block catches up with the
\* head of the ledger, the batches read on the way being processed to
\* their end.
C18_ConnectivityErrorsNotFatal ==
    []~hist.stop_called =>
        /\ [](pc # "done")
        /\ (pc = "connect_backoff") ~> (pc = "connect")
        /\ (pc = "monitor_backoff") ~> (pc = "connect")
        /\ (pc = "poll_backoff") ~> (pc = "cycle_read")
        /\ (pc = "batch") ~> (pc = "poll_sleep" /\ idx = Len(logs))
        /\ <>[]~InBackoff =>
              /\ []<>(pc = "cycle_read")
              /\ <>[](last_block = head)

\* after a failed cycle the task, not stopped, has polled again, read a
\* batch of new blocks and processed it
C18_Witness ==
    /\ hist.failed_since_connect
    /\ ~hist.stop_called
    /\ pc = "poll_sleep"
    /\ Len(logs) >= 1
    /\ Len(hist.processed) = Len(logs)
    /\ last_block = head
    /\ last_block > hist.start_block

-----------------------------------------------------------------------------
(* Claims about the wallet windows, checked under SpecWindow *)

\* C1: a wallet's window holds exactly the last min(n, 100) of the n signals
\* appended for it, in insertion order, and never more than 100.
C1_WindowHoldsLastAppended ==
    \A w \in Wallets :
        LET n == Len(appended[w])
            m == IF n < 100 THEN n ELSE 100
        IN /\ Len(wallet_events[w]) <= 100
           /\ wallet_events[w] = SubSeq(appended[w], n - m + 1, n)

\* 101 appends: the first signal is gone, the other 100 are there in order
C1_Witness ==
    /\ Len(appended["w1"]) = 101
    /\ Len(wallet_events["w1"]) = 100
    /\ \A k \in 1..100 : wallet_events["w1"][k].tx_hash = k + 1

-----------------------------------------------------------------------------
(* Claims about the evaluation that follows an append, checked under       *)
(* SpecClock                                                               *)

\* C27 as stated: after process_event has appended a signal, the wallet of
\* that signal has been evaluated and the evaluated slice contains the
\* signal just appended (so the feature extractor saw a non-empty slice).
C27_AppendedSignalIsEvaluated ==
    txCounter > 0 =>
        LET w == hist.last_call[1].event.from
            sig == appended[w][Len(appended[w])]
        IN /\ sig.tx_hash = hist.last_call[1].event.tx_hash
           /\ lastEval.wallet = w
           /\ lastEval.ran
           /\ \E k \in 1..Len(lastEval.slice) : lastEval.slice[k] = sig

-----------------------------------------------------------------------------
(* Claims about the ratios, checked under SpecRatio *)

\* C26: every signal appended to a window has its ratio in [0, 1], whatever
\* the value and the balance: a zero balance gives 1.0 for a positive value
\* and 0.0 for none, a failed balance lookup one of the fallback ratios, a
\* value above the balance 1.0.
C26_RatioWithinUnitInterval ==
    /\ \A w \in Wallets :
          /\ \A k \in 1..Len(appended[w]) :
                appended[w][k].ratio >= 0 /\ appended[w][k].ratio <= 100
          /\ \A k \in 1..Len(wallet_events[w]) :
                wallet_events[w][k].ratio >= 0 /\ wallet_events[w][k].ratio <= 100
    /\ txCounter > 0 =>
          LET e == hist.last_call[1].event
              balance == hist.last_call[1].enr.balance
              sig == appended["w1"][Len(appended["w1"])]
          IN /\ Len(appended["w1"]) = txCounter
             /\ sig.tx_hash = e.tx_hash
             /\ (balance = 0 /\ e.sig = "Approval") =>
                   sig.ratio = (IF e.value > 0 THEN 100 ELSE 0)
             /\ (balance = -1) => sig.ratio \in {80, 30, 40, 10}
             /\ (balance > 0 /\ e.sig = "Approval" /\ e.value >= balance) =>
                   sig.ratio = 100

\* an approval of three times the balance after a transfer whose balance
\* lookup failed
C26_Witness ==
    /\ txCounter = 2
    /\ Len(appended["w1"]) = 2
    /\ appended["w1"][1].type = "transfer"
    /\ appended["w1"][1].ratio = 40
    /\ hist.last_call[1].event.sig = "Approval"
    /\ hist.last_call[1].event.value = 300
    /\ hist.last_call[1].enr.balance = 100
    /\ appended["w1"][2].ratio = 100
    /\ wallet_events["w1"][2].ratio = 100

-----------------------------------------------------------------------------
(* Claims about the monitoring session, checked under Spec and FairSpec *)

Contiguous(ranges, start) ==
    \A i \in 1..Len(ranges) :
        /\ ranges[i][1] <= ranges[i][2]
        /\ ranges[i][1] = (IF i = 1 THEN start ELSE ranges[i - 1][2]) + 1

\* C2: a cycle that finds new blocks queries exactly last_block+1 ..
\* current_block, hands the returned logs to process_event in the order they
\* were returned, and sets last_block to current_block only after the batch;
\* the ranges of the completed cycles are contiguous and do not overlap.
C2_ContiguousRanges ==
    /\ pc = "batch" =>
          /\ hist.query = <<last_block + 1, current_block>>
          /\ last_block < current_block
          /\ Len(hist.processed) + hist.skipped = idx
          /\ \A k \in 1..Len(hist.processed) :
                hist.processed[k] = logs[k].tx_hash
    /\ Contiguous(hist.ranges, hist.start_block)
    /\ pc \in {"poll_check", "cycle_read", "get_logs", "batch", "poll_sleep",
               "poll_backoff"} =>
          last_block = IF hist.ranges = <<>> THEN hist.start_block
                       ELSE hist.ranges[Len(hist.ranges)][2]

C2_Witness ==
    /\ Len(hist.ranges) >= 2
    /\ pc = "poll_sleep"
    /\ Len(hist.processed) = 2

\* C3 as stated: after a ledger call of a polling cycle has failed, connect
\* runs again before the next polling cycle starts.
C3_ReconnectBeforeNextCycle ==
    ~(pc = "cycle_read" /\ hist.failed_since_connect)

\* C4 as stated: a stop takes effect only between polling cycles; every log
\* of a fetched batch is processed, none is passed over.
C4_BatchFullyProcessed ==
    /\ hist.skipped = 0
    /\ pc \in {"poll_sleep", "done"} => Len(hist.processed) = Len(logs)

\* C5: once stop_monitoring has been called the task eventually returns from
\* start_monitoring, and no polling cycle starts after the stop.
C5_StopHalts ==
    /\ hist.stop_called ~> (pc = "done")
    /\ [][hist.stop_called => ~(pc = "poll_check" /\ pc' = "cycle_read")]_vars

\* a stop that arrived inside a batch, and the task has returned
C5_Witness ==
    /\ hist.stop_called
    /\ pc = "done"
    /\ hist.skipped > 0

-----------------------------------------------------------------------------
(* Claims about process_event, checked under SpecEnrich and SpecIngest *)

LastCall == hist.last_call[1]

\* C6: whichever lookups fail, process_event appends exactly one signal for
\* the log and evaluates the wallet; a failed balance lookup gives the ratio
\* picked by the value threshold, a failed code lookup to_contract false, a
\* failed gas lookup gas price 0.
C6_EnrichmentFailureKeepsSignal ==
    /\ Len(appended["w1"]) = txCounter
    /\ txCounter > 0 =>
          LET e == LastCall.event
              enr == LastCall.enr
              sig == appended["w1"][txCounter]
          IN /\ sig.tx_hash = e.tx_hash
             /\ sig.type = (IF e.sig = "Approval" THEN "approval" ELSE "transfer")
             /\ wallet_events["w1"][Len(wallet_events["w1"])] = sig
             /\ (enr.balance = Failed /\ e.sig = "Approval") =>
                    sig.ratio = (IF e.value > 100 THEN 80 ELSE 30)
             /\ (enr.balance = Failed /\ e.sig = "Transfer") =>
                    sig.ratio = (IF e.value > 100 THEN 40 ELSE 10)
             /\ enr.code = "fail" => ~sig.to_contract
             /\ enr.gas = Failed => sig.gas_price = 0
             /\ lastEval.ran
             /\ lastEval.wallet = "w1"
             /\ lastEval.slice[Len(lastEval.slice)] = sig

\* all three lookups failed on the second event, both sides of the threshold
C6_Witness ==
    /\ txCounter = 2
    /\ LastCall.enr = AllFailed
    /\ LastCall.event.sig = "Approval"
    /\ LastCall.event.value = 50
    /\ appended["w1"][1].ratio = 80
    /\ appended["w1"][2].ratio = 30
    /\ ~appended["w1"][2].to_contract
    /\ appended["w1"][2].gas_price = 0
    /\ lastEval.ran

\* C7: insert_alert is called if and only if the verdict is medium or high,
\* the upload only after it; a low verdict records no row and uploads nothing.
C7_AlertIffMediumOrHigh ==
    /\ lastEval.ran =>
          /\ lastEval.insert_called <=> lastEval.severity \in {"medium", "high"}
          /\ lastEval.upload_called => lastEval.insert_called
          /\ lastEval.severity \in {"low", "medium", "high"}
    /\ \A k \in 1..Len(alerts) : alerts[k].severity \in {"medium", "high"}
    /\ \A k \in 1..Len(uploads) : uploads[k].severity \in {"medium", "high"}
    /\ Len(uploads) <= Len(alerts)

\* a medium verdict recorded and uploaded
C7_Witness ==
    /\ lastEval.ran
    /\ lastEval.severity = "medium"
    /\ lastEval.insert_called
    /\ lastEval.upload_called
    /\ Len(alerts) > 0
    /\ Len(uploads) > 0
    /\ alerts[Len(alerts)].severity = "medium"
    /\ uploads[Len(uploads)].alert_id = lastEval.alert_id

\* C29: the severity evaluate_signals hands to the ingestor is low, medium
\* or high, from the pattern/behaviour pipeline and from the fallback rule
\* engine alike; the value unknown is never the severity of an evaluation,
\* of an alert row or of an uploaded case.
C29_SeverityNeverUnknown ==
    /\ lastEval.ran =>
          /\ lastEval.severity # "unknown"
          /\ lastEval.severity \in {"low", "medium", "high"}
          /\ lastEval.reason # <<>>
    /\ \A k \in 1..Len(alerts) :
          alerts[k].severity # "unknown" /\ alerts[k].severity \in {"medium", "high"}
    /\ \A k \in 1..Len(uploads) :
          uploads[k].severity # "unknown" /\ uploads[k].severity \in {"medium", "high"}

\* the rule engine answered (R02 is its reason) with high, and the alert row
\* was recorded; an earlier alert came from the pipeline
C29_Witness ==
    /\ lastEval.ran
    /\ lastEval.severity = "high"
    /\ lastEval.reason[1].label = "R02: High allowance to unknown spender"
    /\ Len(alerts) >= 2
    /\ alerts[Len(alerts)].severity = "high"
    /\ alerts[Len(alerts)].reason = lastEval.reason
    /\ alerts[1].reason[1].label \in {"Detected patterns", "Behavioral anomalies"}

\* C30: an evaluation with a medium or high verdict records one alert row,
\* or none when insert_alert fails, and then no upload is attempted; the
\* upload is attempted only once the row exists, at most one case is
\* uploaded, and the case carries the id of that row and the slice that was
\* evaluated; an evaluation with a low verdict records and uploads nothing.
C30_AlertOnceBeforeUpload ==
    [][LET e == lastEval'
           recorded == Len(alerts') - Len(alerts)
           uploaded == Len(uploads') - Len(uploads)
       IN /\ recorded \in {0, 1}
          /\ uploaded \in {0, 1}
          /\ SubSeq(alerts', 1, Len(alerts)) = alerts
          /\ SubSeq(uploads', 1, Len(uploads)) = uploads
          /\ (e.ran /\ e.severity \in {"medium", "high"}) =>
                /\ e.insert_called
                /\ IF e.alert_id = 0
                   THEN recorded = 0 /\ uploaded = 0 /\ ~e.upload_called
                   ELSE /\ recorded = 1
                        /\ e.alert_id = Len(alerts')
                        /\ alerts'[e.alert_id].id = e.alert_id
                        /\ alerts'[e.alert_id].wallet = e.wallet
                        /\ alerts'[e.alert_id].severity = e.severity
                        /\ \A k \in 1..Len(alerts) : alerts[k].id # e.alert_id
                        /\ e.upload_called
          /\ ~(e.ran /\ e.severity \in {"medium", "high"}) =>
                recorded = 0 /\ uploaded = 0 /\ ~e.insert_called
          /\ uploaded = 1 =>
                /\ e.upload_called
                /\ e.alert_id # 0
                /\ uploads'[Len(uploads')].alert_id = e.alert_id
                /\ uploads'[Len(uploads')].signals = e.slice
                /\ uploads'[Len(uploads')].wallet = e.wallet
      ]_vars

\* three evaluations: two rows recorded, one case uploaded, for the second
\* row and the three-signal slice just evaluated
C30_Witness ==
    /\ txCounter = 3
    /\ Len(alerts) = 2
    /\ Len(uploads) = 1
    /\ lastEval.alert_id = 2
    /\ uploads[1].alert_id = 2
    /\ uploads[1].signals = lastEval.slice
    /\ Len(lastEval.slice) = 3

=============================================================================
